---- MODULE Spec2Model ----
(***************************************************************************)
(* Model of osiris' dependency-ordered reset engine: the resource registry *)
(* (graph construction and Kahn levelling), deleteData's level-by-level    *)
(* concurrent executor, listData's concurrent fetch, and the API client's  *)
(* paginated GetEndpoint and DeleteEndpoint with their rate-limit retries. *)
(***************************************************************************)
EXTENDS Integers, Sequences, FiniteSets, TLC

VARIABLES
  registry,    \* Registry.resources: the registered resources
  lres,        \* levels, err of registry.GetResourcesForDeletion()
  cpc,         \* position of deleteData's own goroutine
  levelIdx,    \* 1-based index of the level deleteData is processing
  ret,         \* what deleteData returned
  ctxDone,     \* the operation-wide context is cancelled
  errChan,     \* buffered error channel of the current level
  doneClosed,  \* the done channel of the current level is closed
  wpc,         \* position of each resource's worker goroutine
  backend,     \* number of items the control plane holds per resource
  items,       \* itemCount: items the worker's listing returned
  idx,         \* 1-based index of the item the worker is at
  werr,        \* the error the worker sent on errChan
  listReqs,    \* list requests issued per resource
  delReqs,     \* delete requests issued per resource
  deleted,     \* items deleted (204) per resource
  errLevels,   \* levels in which a worker sent an error
  results,     \* listData: the shared results slice
  mutex,       \* listData: the holder of the mutex ("" when unlocked)
  errClosed,   \* listData: errChan is closed
  notFound,    \* resources whose collection endpoint answers 404
  op,          \* client: the call in progress, "get" or "delete"
  clpc,        \* client: position of the call
  pageURL,     \* client: the URL of the next request
  getResult,   \* client: result, GetEndpoint's accumulated items
  reqLog,      \* client: the URLs of the requests issued, in order
  served,      \* client: the responses received, in order
  waits,       \* client: the durations slept, in order
  cret,        \* client: what the call returned
  rkind,       \* resource: the type whose List or Delete is running
  ritem,       \* resource: the item Delete was given
  rpc,         \* resource: position of List or Delete
  ridx,        \* resource: index of the item or secret being handled
  rdata,       \* resource: the items List is about to return
  rret         \* resource: what List or Delete returned

clientVars == <<op, clpc, pageURL, getResult, reqLog, served, waits, cret>>

resVars == <<rkind, ritem, rpc, ridx, rdata, rret>>

vars == <<registry, lres, cpc, levelIdx, ret, ctxDone, errChan, doneClosed,
          wpc, backend, items, idx, werr, listReqs, delReqs, deleted, errLevels,
          results, mutex, errClosed, notFound, clientVars, resVars, resVars>>

fetchVars == <<results, mutex, errClosed>>

----------------------------------------------------------------------------
(* Bounds *)

\* resources registered when the levelling is checked on its own
NumRes == 3
\* declared dependencies (with repetitions) over the whole registry
MaxEdges == 3
\* resources registered when deleteData is executed
ExecRes == 2
\* declared dependencies over the whole registry when deleteData is executed
ExecEdges == 1
\* items held by the control plane, over all resources
MaxItems == 3
\* requests one call of the client may issue
MaxRequests == 3
\* items of one array of a page
MaxPageItems == 2
MaxSecrets == 2

NameSeq == <<"A", "B", "C", "D", "E">>

\* a dependency name that no resource registers
Ghost == "ghost"

NamesOf(n) == {NameSeq[i] : i \in 1..n}

----------------------------------------------------------------------------
(* Registry: resources, graph construction, levelling *)

deleteOrder == 0
insertOrder == 1

SumOver(f, S) ==
  LET RECURSIVE Sum(_)
      Sum(T) == IF T = {} THEN 0
                ELSE LET x == CHOOSE y \in T : TRUE IN f[x] + Sum(T \ {x})
  IN Sum(S)

\* all orders in which a Go map with key set S can be iterated
Perms(S) ==
  {s \in [1..Cardinality(S) -> S] : \A i, j \in 1..Cardinality(S) : i # j => s[i] # s[j]}

\* A registry is the list of resources, each with its name and its declared
\* dependencies (BaseResource.name, BaseResource.dependencies).
Resource(name, deps) == [name |-> name, dependencies |-> deps]

RECURSIVE RegistryOf(_, _)
RegistryOf(n, edges) ==
  IF edges = <<>> THEN [i \in 1..n |-> Resource(NameSeq[i], <<>>)]
  ELSE LET rest == RegistryOf(n, Tail(edges))
           e == Head(edges)
       IN [rest EXCEPT ![e[1]] = Resource(@.name, <<e[2]>> \o @.dependencies)]

EdgeLists(n, m) ==
  UNION {[1..k -> (1..n) \X (NamesOf(n) \cup {Ghost})] : k \in 0..m}

Registries(n, m) == {RegistryOf(n, el) : el \in EdgeLists(n, m)}

ResourceNames(resources) == {resources[i].name : i \in 1..Len(resources)}

\* the edge added the other way round
AddEdge_Reversed(graph, name, dep, orderType) ==
  IF orderType = deleteOrder
  THEN [graph EXCEPT ![dep] = Append(@, name)]
  ELSE [graph EXCEPT ![name] = Append(@, dep)]

\* one edge, in the direction of the order type
AddEdge(graph, name, dep, orderType) ==
  IF orderType = deleteOrder
  THEN [graph EXCEPT ![name] = Append(@, dep)]
  ELSE [graph EXCEPT ![dep] = Append(@, name)]

RECURSIVE AddEdges(_, _, _, _)
AddEdges(graph, name, deps, orderType) ==
  IF deps = <<>> THEN graph
  ELSE AddEdges(AddEdge(graph, name, Head(deps), orderType), name, Tail(deps), orderType)

\* the lookup of the dependency left out
DepExists_Unchecked(resourceMap, dep) == TRUE

\* _, exists := resourceMap[dep]
DepExists(resourceMap, dep) == dep \in resourceMap

\* the graph of the registry, or the failure on the first dependency that
\* names no registered resource
RECURSIVE BuildGraphFrom(_, _, _, _)
BuildGraphFrom(resources, i, graph, orderType) ==
  IF i > Len(resources) THEN [ok |-> TRUE, graph |-> graph]
  ELSE LET res == resources[i]
           deps == res.dependencies
       IN IF \E k \in 1..Len(deps) : ~DepExists(ResourceNames(resources), deps[k])
          THEN [ok |-> FALSE, graph |-> << >>]
          ELSE BuildGraphFrom(resources, i + 1,
                              AddEdges(graph, res.name, deps, orderType), orderType)

BuildGraph(resources, orderType) ==
  BuildGraphFrom(resources, 1, [n \in ResourceNames(resources) |-> <<>>], orderType)

\* Go map read: the zero value for a key the map does not hold
MapGet(m, k, zero) == IF k \in DOMAIN m THEN m[k] ELSE zero

\* Go map write: the key is created when the map does not hold it
MapSet(m, k, v) == [x \in (DOMAIN m) \cup {k} |-> IF x = k THEN v ELSE m[x]]

\* inDegree[dep]++ for every dep of one node
RECURSIVE CountDeps(_, _)
CountDeps(deps, inDegree) ==
  IF deps = <<>> THEN inDegree
  ELSE CountDeps(Tail(deps),
                 MapSet(inDegree, Head(deps), MapGet(inDegree, Head(deps), 0) + 1))

\* number of edges that enter each node
RECURSIVE CountAll(_, _, _)
CountAll(graph, nodes, inDegree) ==
  IF nodes = {} THEN inDegree
  ELSE LET node == CHOOSE n \in nodes : TRUE
       IN CountAll(graph, nodes \ {node}, CountDeps(graph[node], inDegree))

\* several edges into a node counted as one
InDegree_AtMostOne(graph) ==
  LET counted == CountAll(graph, DOMAIN graph, [n \in DOMAIN graph |-> 0])
  IN [n \in DOMAIN counted |-> IF counted[n] > 0 THEN 1 ELSE 0]

InDegree(graph) == CountAll(graph, DOMAIN graph, [n \in DOMAIN graph |-> 0])

\* the node joins the next level at every decrement
ReachedZero_Always(inDegree, dep) == TRUE

\* the in-degree of dep reached zero: it joins the next level
ReachedZero(inDegree, dep) == MapGet(inDegree, dep, 0) = 0

\* a dependency named more than once decremented once
RECURSIVE ProcessDeps_OncePerDep(_, _, _)
ProcessDeps_OncePerDep(deps, inDegree, nextQueue) ==
  IF deps = <<>> THEN [inDegree |-> inDegree, nextQueue |-> nextQueue]
  ELSE LET dep == Head(deps)
           dec == MapSet(inDegree, dep, MapGet(inDegree, dep, 0) - 1)
       IN ProcessDeps_OncePerDep(SelectSeq(Tail(deps), LAMBDA d : d # dep), dec,
                                 IF ReachedZero(dec, dep) THEN Append(nextQueue, dep)
                                 ELSE nextQueue)

\* processing of the edges leaving one node of the current level
RECURSIVE ProcessDeps(_, _, _)
ProcessDeps(deps, inDegree, nextQueue) ==
  IF deps = <<>> THEN [inDegree |-> inDegree, nextQueue |-> nextQueue]
  ELSE LET dep == Head(deps)
           dec == MapSet(inDegree, dep, MapGet(inDegree, dep, 0) - 1)
       IN ProcessDeps(Tail(deps), dec,
                      IF ReachedZero(dec, dep) THEN Append(nextQueue, dep) ELSE nextQueue)

RECURSIVE ProcessQueue(_, _, _, _)
ProcessQueue(graph, queue, inDegree, nextQueue) ==
  IF queue = <<>> THEN [inDegree |-> inDegree, nextQueue |-> nextQueue]
  ELSE LET st == ProcessDeps(MapGet(graph, Head(queue), <<>>), inDegree, nextQueue)
       IN ProcessQueue(graph, Tail(queue), st.inDegree, st.nextQueue)

\* a level closed after its first node
RECURSIVE LevelLoop_PerNode(_, _, _, _)
LevelLoop_PerNode(graph, queue, inDegree, result) ==
  IF queue = <<>> THEN result
  ELSE LET st == ProcessQueue(graph, <<Head(queue)>>, inDegree, <<>>)
       IN LevelLoop_PerNode(graph, Tail(queue) \o st.nextQueue, st.inDegree,
                            Append(result, <<Head(queue)>>))

\* for len(queue) > 0: the whole queue is one level, the nodes it frees are
\* the next queue
RECURSIVE LevelLoop(_, _, _, _)
LevelLoop(graph, queue, inDegree, result) ==
  IF queue = <<>> THEN result
  ELSE LET st == ProcessQueue(graph, queue, inDegree, <<>>)
       IN LevelLoop(graph, st.nextQueue, st.inDegree, Append(result, queue))

RECURSIVE ProcessedNodes(_)
ProcessedNodes(result) ==
  IF result = <<>> THEN 0 ELSE Len(Head(result)) + ProcessedNodes(Tail(result))

\* the count of placed nodes left unchecked
CycleDetected_Never(result, graph) == FALSE

\* some node was never placed
CycleDetected(result, graph) == ProcessedNodes(result) < Cardinality(DOMAIN graph)

\* every node queued at the start
InitialQueue_All(order, inDegree) == order

\* the nodes with in-degree 0, in the order the map is iterated
InitialQueue(order, inDegree) == SelectSeq(order, LAMBDA n : inDegree[n] = 0)

\* order is the order in which the map of the graph is iterated
topologicalSort(graph, order) ==
  LET inDegree == InDegree(graph)
      queue == InitialQueue(order, inDegree)
      result == LevelLoop(graph, queue, inDegree, <<>>)
  IN IF CycleDetected(result, graph)
     THEN [levels |-> <<>>, err |-> "cyclic dependency"]
     ELSE [levels |-> result, err |-> ""]

\* the levels of names as levels of resources: names the registry does not
\* hold are skipped
GroupLevels(orderedNames, resourceMap) ==
  [i \in 1..Len(orderedNames) |->
     SelectSeq(orderedNames[i], LAMBDA name : name \in resourceMap)]

getOrderedResources(resources, orderType, order) ==
  LET g == BuildGraph(resources, orderType)
      sorted == topologicalSort(g.graph, order)
  IN IF ~g.ok THEN [levels |-> <<>>, err |-> "dependency not found"]
     ELSE IF sorted.err # "" THEN [levels |-> <<>>, err |-> sorted.err]
     ELSE [levels |-> GroupLevels(sorted.levels, ResourceNames(resources)), err |-> ""]

\* the insertion order asked for
GetResourcesForInsertion(resources, order) ==
  getOrderedResources(resources, insertOrder, order)

GetResourcesForDeletion(resources, order) ==
  getOrderedResources(resources, deleteOrder, order)

----------------------------------------------------------------------------
(* The API client: URLs, responses, one page of a listing.  A string the    *)
(* code examines or builds (a URL, the next link, a cursor, a Retry-After   *)
(* header) is a sequence of tokens; the empty string is <<>>.               *)

\* const defaultRateLimitWaitDuration = 10 * time.Second, in seconds
defaultRateLimitWaitDuration == 10

\* decimal numerals of the request numbers
NumTok == <<"1", "2", "3", "4", "5", "6", "7", "8">>

\* c.baseURL
baseURL == <<"https://api/cp">>

\* the endpoint of the collection the client is asked for
endpoint == <<"things">>

\* the endpoint of one item of the collection
endpointWithID == endpoint \o <<"/", "id">>

\* fmt.Sprintf("%s/%s", c.baseURL, endpoint)
EndpointURL(ep) == baseURL \o <<"/">> \o ep

\* the endpoint a URL was built from
EndpointOf(url) == SubSeq(url, Len(baseURL) + 2, Len(url))

\* strings.TrimPrefix
TrimPrefix(str, prefix) ==
  IF Len(str) >= 1 /\ Head(str) = prefix THEN Tail(str) ELSE str

\* item k of array arr of the page that answers request n, as the server
\* sends it
RawItem(n, k, arr) ==
  [id |-> <<n, k>>, key |-> <<n, k>>, arr |-> arr, created_at |-> "t0",
   updated_at |-> "t1"]

RawItems(n, c, arr) == [k \in 1..c |-> RawItem(n, k, arr)]

\* delete(item, "updated_at"); delete(item, "created_at")
StripItem(item) ==
  [f \in DOMAIN item \ {"updated_at", "created_at"} |-> item[f]]

StripAll(arr) == [k \in 1..Len(arr) |-> StripItem(arr[k])]

\* a response: the status (0: the request failed in transport), whether the
\* body decodes, the fields of the decoded body (absent fields are zero
\* values) and the Retry-After header
Response(status, decodes, data, next, its, hasNext, cursor, retryAfter) ==
  [status |-> status, decodes |-> decodes, data |-> data, next |-> next,
   items |-> its, has_next_page |-> hasNext, next_cursor |-> cursor,
   retryAfter |-> retryAfter]

Page(data, next, its, hasNext, cursor) ==
  Response(200, TRUE, data, next, its, hasNext, cursor, <<>>)

StatusOnly(status) == Response(status, TRUE, <<>>, <<>>, <<>>, FALSE, <<>>, <<>>)

\* the next links the server may send with the page that answers request n:
\* none, a path with or without its leading slash
Links(n) ==
  {<<>>,
   <<"/">> \o endpoint \o <<"?offset=", NumTok[n]>>,
   endpoint \o <<"?offset=", NumTok[n]>>}

CursorOf(n) == <<"cursor", NumTok[n]>>

\* pages with a data array and a next link
PagesA(n) ==
  {Page(RawItems(n, c, "data"), link, <<>>, FALSE, <<>>) :
     c \in 0..MaxPageItems, link \in Links(n)}

\* pages with an items array and a page object
PagesB(n) ==
  {Page(<<>>, <<>>, RawItems(n, c, "items"), h, IF h THEN CursorOf(n) ELSE <<>>) :
     c \in 0..MaxPageItems, h \in BOOLEAN}

\* pages that carry both arrays
PagesMixed(n) ==
  {Page(RawItems(n, 1, "data"), link, RawItems(n, 1, "items"), h,
        IF h THEN CursorOf(n) ELSE <<>>) :
     link \in Links(n), h \in BOOLEAN}

\* Retry-After headers: absent, "3s", "1m", "120", "soon"
RetryAfterHeaders == {<<>>, <<"3", "s">>, <<"1", "m">>, <<"120">>, <<"soon">>}

RateLimited ==
  {Response(429, TRUE, <<>>, <<>>, <<>>, FALSE, <<>>, h) : h \in RetryAfterHeaders}

\* 200 with a body that is not the JSON expected
BadBody == Response(200, FALSE, <<>>, <<>>, <<>>, FALSE, <<>>, <<>>)

\* c.httpClient.Do returned an error
TransportError == StatusOnly(0)

\* what the server may answer to the n-th GET of a walk
GetResponses(n) ==
  PagesA(n) \cup PagesB(n) \cup PagesMixed(n) \cup RateLimited
    \cup {BadBody, TransportError, StatusOnly(204), StatusOnly(404), StatusOnly(500)}

\* what the server may answer to a DELETE
DeleteResponses ==
  RateLimited \cup {TransportError, StatusOnly(204), StatusOnly(200),
                    StatusOnly(404), StatusOnly(500)}

\* value of a decimal numeral (-1: not a numeral)
NumeralValue(t) ==
  CASE t = "0" -> 0
    [] t = "1" -> 1
    [] t = "3" -> 3
    [] t = "120" -> 120
    [] OTHER -> -1

\* seconds of the units of time.ParseDuration that are whole seconds
unitMap == [s |-> 1, m |-> 60, h |-> 3600]

\* time.ParseDuration on a number followed by a unit; "0" needs no unit
ParseDuration(str) ==
  IF str = <<"0">> THEN [err |-> FALSE, d |-> 0]
  ELSE IF Len(str) = 2 /\ NumeralValue(str[1]) >= 0 /\ str[2] \in DOMAIN unitMap
       THEN [err |-> FALSE, d |-> NumeralValue(str[1]) * unitMap[str[2]]]
       ELSE [err |-> TRUE, d |-> 0]

\* the default whatever the header
retryAfterDuration_Default(resp) == defaultRateLimitWaitDuration

retryAfterDuration(resp) ==
  IF Len(resp.retryAfter) = 0 THEN defaultRateLimitWaitDuration
  ELSE IF ParseDuration(resp.retryAfter).err THEN defaultRateLimitWaitDuration
  ELSE ParseDuration(resp.retryAfter).d

\* items preferred to data
PageData_ItemsFirst(resp) ==
  IF Len(resp.items) > 0 THEN StripAll(resp.items)
  ELSE IF Len(resp.data) > 0 THEN StripAll(resp.data)
  ELSE resp.data

\* the items of a decoded page: data when it has items, else items, the
\* timestamps removed
PageData(resp) ==
  IF Len(resp.data) > 0 THEN StripAll(resp.data)
  ELSE IF Len(resp.items) > 0 THEN StripAll(resp.items)
  ELSE resp.data

\* the URL of the page that follows: the next link, else the cursor appended
\* to the URL of this page
NextURL(url, resp) ==
  IF Len(resp.next) > 0 THEN baseURL \o <<"/">> \o TrimPrefix(resp.next, "/")
  ELSE IF resp.has_next_page
       THEN url \o <<"?page.next_cursor=">> \o resp.next_cursor
       ELSE <<>>

PageResult(data, nextURL, err, retryAfter) ==
  [data |-> data, nextURL |-> nextURL, err |-> err, retryAfter |-> retryAfter]

\* a status the switch does not name taken like a 404
getEndpointPage_UnhandledAsEmpty(url, resp) ==
  IF resp.status = 0 THEN PageResult(<<>>, <<>>, "error making request", 0)
  ELSE IF resp.status = 200
       THEN IF ~resp.decodes
            THEN PageResult(<<>>, <<>>, "error decoding response", 0)
            ELSE PageResult(PageData(resp), NextURL(url, resp), "", 0)
  ELSE IF resp.status = 429
       THEN PageResult(<<>>, url, "rate limited", retryAfterDuration(resp))
  ELSE PageResult(<<>>, <<>>, "", 0)

\* getEndpointPage once the request is answered: data, nextURL, err
getEndpointPage(url, resp) ==
  IF resp.status = 0 THEN PageResult(<<>>, <<>>, "error making request", 0)
  ELSE IF resp.status = 200
       THEN IF ~resp.decodes
            THEN PageResult(<<>>, <<>>, "error decoding response", 0)
            ELSE PageResult(PageData(resp), NextURL(url, resp), "", 0)
  ELSE IF resp.status = 429
       THEN PageResult(<<>>, url, "rate limited", retryAfterDuration(resp))
  ELSE IF resp.status = 404 THEN PageResult(<<>>, <<>>, "", 0)
  ELSE PageResult(<<>>, <<>>, "unhandled status code", 0)

----------------------------------------------------------------------------
(* deleteData: the coordinator, the waiter and one worker per resource *)

Names == ResourceNames(registry)

NoRet == [kind |-> "none", res |-> "", item |-> 0, total |-> 0]
NilRet == [kind |-> "nil", res |-> "", item |-> 0, total |-> 0]
\* ctx.Err() of the cancelled operation context
Canceled == [kind |-> "canceled", res |-> "", item |-> 0, total |-> 0]
\* "error generating deletion order: ..."
OrderErr == [kind |-> "order", res |-> "", item |-> 0, total |-> 0]
\* "error listing resource <res>: ..."
ListErr(r) == [kind |-> "list", res |-> r, item |-> 0, total |-> 0]
\* "error deleting item <item>/<total> for <res>: ..."
DeleteErr(r, i, n) == [kind |-> "delete", res |-> r, item |-> i, total |-> n]
NoErr == [kind |-> "", res |-> "", item |-> 0, total |-> 0]

levels == lres.levels

SeqToSet(s) == {s[i] : i \in 1..Len(s)}

\* the resources of the level deleteData is processing
CurLevel == IF levelIdx \in 1..Len(levels) THEN SeqToSet(levels[levelIdx]) ELSE {}

\* index of the level a resource was placed in (0: none)
LevelOf(r) ==
  IF \E l \in 1..Len(levels) : r \in SeqToSet(levels[l])
  THEN CHOOSE l \in 1..Len(levels) : r \in SeqToSet(levels[l])
  ELSE 0

\* a scope cancelled as soon as a worker of the level reports an error
LevelCtxDone_OnFirstError == ctxDone \/ cpc = "returned" \/ errChan # <<>>

\* a scope that does not follow the context it was derived from
LevelCtxDone_Detached == cpc = "returned"

\* levelCtx.Done(): derived from ctx, cancelled by the deferred cancel() when
\* deleteData returns
LevelCtxDone == ctxDone \/ cpc = "returned"

\* the levels whose iteration has run context.WithCancel(ctx)
ScopesCreated ==
  1..(IF cpc = "level" THEN levelIdx - 1
      ELSE IF levelIdx > Len(levels) THEN Len(levels) ELSE levelIdx)

\* the scope of level l is cancelled
LevelScopeDone(l) == l \in ScopesCreated /\ LevelCtxDone

Backends(names) ==
  {b \in [names -> 0..MaxItems] : SumOver(b, names) <= MaxItems}

InitWorkers(names) ==
  /\ wpc = [n \in names |-> "idle"]
  /\ items = [n \in names |-> 0]
  /\ idx = [n \in names |-> 0]
  /\ werr = [n \in names |-> NoErr]
  /\ listReqs = [n \in names |-> 0]
  /\ delReqs = [n \in names |-> 0]
  /\ deleted = [n \in names |-> 0]

\* a field of an item: absent, a string, or a value that is not a string
Absent == [type |-> "absent", val |-> ""]

StringValue(s) == [type |-> "string", val |-> s]

NumberValue(s) == [type |-> "number", val |-> s]

\* v, ok := item[f].(string)
AsString(v) ==
  [ok |-> v.type = "string", val |-> IF v.type = "string" THEN v.val ELSE ""]

\* the keys of the secrets of a config store
KeyTok == <<"k1", "k2", "k3", "k4">>

\* an item as Delete reads it: its id, its name and its secret keys
Item(id, name, secret) == [id |-> id, name |-> name, secret |-> secret]

NoItem == Item(Absent, Absent, <<>>)

\* the items Delete may be given
DeleteItems ==
  {Item(id, name, SubSeq(KeyTok, 1, c)) :
     id \in {Absent, StringValue("id"), NumberValue("7")},
     name \in {Absent, StringValue("name")},
     c \in 0..MaxSecrets}

\* what List or Delete returned: nothing yet, a nil error (and the data), or
\* an error
ResResult(kind, err, data) == [kind |-> kind, err |-> err, data |-> data]

NoResult == ResResult("none", "", <<>>)

\* the resource types: the ones that keep List and Delete of BaseResource,
\* the consumer (its own List) and the config store (its own List and Delete)
ResourceKinds == {"base", "consumer", "config-store"}

\* BaseResource.Delete: id, ok := item["id"].(string), else item["name"]
BaseItemID(item) ==
  IF AsString(item.id).ok THEN AsString(item.id) ELSE AsString(item.name)

\* ConfigStoreResource.Delete: id, ok := item["id"].(string)
ConfigStoreItemID(item) == AsString(item.id)

\* the Delete the resource type dispatches to
ItemID(kind, item) ==
  IF kind = "config-store" THEN ConfigStoreItemID(item) ELSE BaseItemID(item)

\* the error of Delete on an item it cannot address
InvalidItemError(kind) ==
  IF kind = "config-store"
  THEN ResResult("error", "invalid config store ID", <<>>)
  ELSE ResResult("error", "invalid item format: missing id or name field", <<>>)

\* fmt.Sprintf("%s/%s", r.path, id)
ItemPath(id) == endpoint \o <<"/", id>>

\* fmt.Sprintf("%s/%s/secrets/%s", r.path, id, secretKey)
SecretPath(id, secretKey) == endpoint \o <<"/", id, "/secrets/", secretKey>>

\* the id of a listed item as a path segment
IDTok(item) == <<NumTok[item.id[1]], ".", NumTok[item.id[2]]>>

\* fmt.Sprintf("%s/%s/consumer_groups", r.path, id) and
\* fmt.Sprintf("%s/%s/secrets", r.path, id)
NestedPath(kind, item) ==
  endpoint \o <<"/">> \o IDTok(item)
    \o <<IF kind = "consumer" THEN "/consumer_groups" ELSE "/secrets">>

\* consumer["groups"] = consumerGroupIDs, configStore["secret"] = secretKeys
WithNested(kind, item, nested) ==
  IF Len(nested) = 0
  THEN item
  ELSE IF kind = "consumer"
  THEN ("groups" :> [j \in 1..Len(nested) |-> nested[j].id]) @@ item
  ELSE ("secret" :> [j \in 1..Len(nested) |-> nested[j].key]) @@ item

\* no call of the client on its own is in progress
InitClientIdle ==
  /\ op = ""
  /\ clpc = "idle"
  /\ pageURL = <<>>
  /\ getResult = <<>>
  /\ reqLog = <<>>
  /\ served = <<>>
  /\ waits = <<>>
  /\ cret = [kind |-> "none", err |-> "", data |-> <<>>, path |-> <<>>, status |-> 0]

\* no List or Delete of a resource on its own is in progress
InitResourceIdle ==
  /\ rkind = ""
  /\ ritem = NoItem
  /\ rpc = "idle"
  /\ ridx = 0
  /\ rdata = <<>>
  /\ rret = NoResult

\* the collections that do not exist hold no items
NotFounds(b) == SUBSET {n \in DOMAIN b : b[n] = 0}

\* the number of items r.List returns: GetEndpoint on the collection of r,
\* which answers 404 or holds its items on one page
Listed(r) ==
  IF r \in notFound
  THEN Len(getEndpointPage(EndpointURL(<<r>>), StatusOnly(404)).data)
  ELSE backend[r]

InitCoord ==
  /\ lres = [levels |-> <<>>, err |-> ""]
  /\ cpc = "start"
  /\ levelIdx = 0
  /\ ret = NoRet
  /\ ctxDone = FALSE
  /\ errChan = <<>>
  /\ doneClosed = FALSE
  /\ errLevels = {}
  /\ results = <<>>
  /\ mutex = ""
  /\ errClosed = FALSE

Init ==
  /\ registry \in Registries(ExecRes, ExecEdges)
  /\ backend \in Backends(NamesOf(ExecRes))
  /\ notFound = {}
  /\ InitClientIdle
  /\ InitResourceIdle
  /\ InitCoord
  /\ InitWorkers(NamesOf(ExecRes))

workerVars == <<wpc, items, idx, werr, listReqs, delReqs, deleted, errLevels>>
coordVars == <<lres, cpc, levelIdx, ret, doneClosed>>

\* the operation-wide context is cancelled (signal, caller)
Cancel ==
  /\ ~ctxDone
  /\ cpc # "returned"
  /\ ctxDone' = TRUE
  /\ UNCHANGED <<fetchVars, registry, backend, notFound, clientVars, resVars, errChan, coordVars, workerVars>>

\* the error of GetResourcesForDeletion dropped
OrderFailed_Ignored(res) == FALSE

\* deleteData up to the level loop: the deletion order, or its error
OrderFailed(res) == res.err # ""

RECURSIVE Flatten(_)
Flatten(ls) == IF ls = <<>> THEN <<>> ELSE Head(ls) \o Flatten(Tail(ls))

\* The workers of a level are goroutines launched one after the other and run
\* concurrently: the place of a resource inside its level is not observable
\* by deleteData, and a level is kept in the order of the registry.
Launched(level) ==
  Flatten([i \in 1..Len(registry) |->
             SelectSeq(level, LAMBDA n : n = registry[i].name)])

DeleteDataBegin ==
  /\ cpc = "start"
  /\ \E order \in Perms(Names) :
       LET res == GetResourcesForDeletion(registry, order)
       IN /\ lres' = [res EXCEPT !.levels = [i \in DOMAIN res.levels |-> Launched(res.levels[i])]]
          /\ IF OrderFailed(res)
             THEN cpc' = "returned" /\ ret' = OrderErr /\ levelIdx' = levelIdx
             ELSE cpc' = "level" /\ ret' = ret /\ levelIdx' = 1
  /\ UNCHANGED <<fetchVars, registry, backend, notFound, clientVars, resVars, ctxDone, errChan, doneClosed, workerVars>>

\* one iteration of the level loop up to the select: a fresh error channel, a
\* worker goroutine per resource of the level, the goroutine that waits for them
StartLevel ==
  /\ cpc = "level"
  /\ levelIdx <= Len(levels)
  /\ errChan' = <<>>
  /\ doneClosed' = FALSE
  /\ wpc' = [n \in Names |-> IF n \in CurLevel THEN "list" ELSE wpc[n]]
  /\ cpc' = "select"
  /\ UNCHANGED <<fetchVars, registry, backend, notFound, clientVars, resVars, lres, levelIdx, ret, ctxDone,
                 items, idx, werr, listReqs, delReqs, deleted, errLevels>>

\* the level loop is over: deleteData returns nil
DeleteDataEnd ==
  /\ cpc = "level"
  /\ levelIdx > Len(levels)
  /\ cpc' = "returned"
  /\ ret' = NilRet
  /\ UNCHANGED <<fetchVars, registry, backend, notFound, clientVars, resVars, lres, levelIdx, ctxDone, errChan, doneClosed,
                 workerVars>>

\* a worker that never calls wg.Done()
AllFinished_Never == FALSE

\* wg.Wait() returned
AllFinished == \A n \in CurLevel : wpc[n] = "done"

\* go func() { wg.Wait(); close(done) }()
WaitDone ==
  /\ cpc \in {"select", "returned"}
  /\ CurLevel # {}
  /\ ~doneClosed
  /\ AllFinished
  /\ doneClosed' = TRUE
  /\ UNCHANGED <<fetchVars, registry, backend, notFound, clientVars, resVars, lres, cpc, levelIdx, ret, ctxDone, errChan,
                 workerVars>>

\* the select of deleteData; Go chooses among the cases that are ready
CtxReady == ctxDone
ErrReady == errChan # <<>>

\* the done case taken without waiting for the close
DoneReady_NoWait == TRUE

DoneReady == doneClosed

SelectCtxDone ==
  /\ cpc = "select"
  /\ CtxReady
  /\ cpc' = "returned"
  /\ ret' = Canceled
  /\ UNCHANGED <<fetchVars, registry, backend, notFound, clientVars, resVars, lres, levelIdx, ctxDone, errChan, doneClosed,
                 workerVars>>

SelectErr ==
  /\ cpc = "select"
  /\ ErrReady
  /\ cpc' = "returned"
  /\ ret' = Head(errChan)
  /\ errChan' = Tail(errChan)
  /\ UNCHANGED <<fetchVars, registry, backend, notFound, clientVars, resVars, lres, levelIdx, ctxDone, doneClosed, workerVars>>

SelectDone ==
  /\ cpc = "select"
  /\ DoneReady
  /\ cpc' = "level"
  /\ levelIdx' = levelIdx + 1
  /\ UNCHANGED <<fetchVars, registry, backend, notFound, clientVars, resVars, lres, ret, ctxDone, errChan, doneClosed,
                 workerVars>>

\* a channel that holds one error
ErrChanCap_One(l) == 1

\* errChan := make(chan error, len(level))
ErrChanCap(l) == Len(levels[l])

\* errChan <- err; return (the send blocks while the channel is full)
SendErr(r, e) ==
  /\ Len(errChan) < ErrChanCap(LevelOf(r))
  /\ errChan' = Append(errChan, e)
  /\ werr' = [werr EXCEPT ![r] = e]
  /\ errLevels' = errLevels \cup {LevelOf(r)}
  /\ wpc' = [wpc EXCEPT ![r] = "done"]

\* r.List: GetEndpoint checks the context, then issues the request
ListStart(r) ==
  /\ wpc[r] = "list"
  /\ IF LevelCtxDone
     THEN /\ SendErr(r, ListErr(r))
          /\ UNCHANGED listReqs
     ELSE /\ listReqs' = [listReqs EXCEPT ![r] = @ + 1]
          /\ wpc' = [wpc EXCEPT ![r] = "listing"]
          /\ UNCHANGED <<errChan, werr, errLevels>>
  /\ UNCHANGED <<fetchVars, registry, backend, notFound, clientVars, resVars, coordVars, ctxDone, items, idx, delReqs, deleted>>

\* the listing returned its items
ListOk(r) ==
  /\ wpc[r] = "listing"
  /\ items' = [items EXCEPT ![r] = Listed(r)]
  /\ IF Listed(r) = 0
     THEN wpc' = [wpc EXCEPT ![r] = "done"] /\ idx' = idx
     ELSE wpc' = [wpc EXCEPT ![r] = "check"] /\ idx' = [idx EXCEPT ![r] = 1]
  /\ UNCHANGED <<fetchVars, registry, backend, notFound, clientVars, resVars, coordVars, ctxDone, errChan, werr, listReqs,
                 delReqs, deleted, errLevels>>

\* the listing failed (transport error, unhandled status)
ListFail(r) ==
  /\ wpc[r] = "listing"
  /\ SendErr(r, ListErr(r))
  /\ UNCHANGED <<fetchVars, registry, backend, notFound, clientVars, resVars, coordVars, ctxDone, items, idx, listReqs,
                 delReqs, deleted>>

\* the item loop without the check of levelCtx
CheckCtx_NoCheck(r) ==
  /\ wpc[r] = "check"
  /\ wpc' = [wpc EXCEPT ![r] = "delete"]
  /\ UNCHANGED <<fetchVars, registry, backend, notFound, clientVars, resVars, coordVars, ctxDone, errChan, items, idx, werr,
                 listReqs, delReqs, deleted, errLevels>>

\* select { case <-levelCtx.Done(): return; default: } before each item
CheckCtx(r) ==
  /\ wpc[r] = "check"
  /\ wpc' = [wpc EXCEPT ![r] = IF LevelCtxDone THEN "done" ELSE "delete"]
  /\ UNCHANGED <<fetchVars, registry, backend, notFound, clientVars, resVars, coordVars, ctxDone, errChan, items, idx, werr,
                 listReqs, delReqs, deleted, errLevels>>

\* the delete launched without waiting for its result (go r.Delete(...)): the
\* loop goes on to the next item while the request is in flight
DeleteStart_Async(r) ==
  /\ wpc[r] = "delete"
  /\ ~LevelCtxDone
  /\ delReqs' = [delReqs EXCEPT ![r] = @ + 1]
  /\ wpc' = [wpc EXCEPT ![r] = IF idx[r] = items[r] THEN "deleting" ELSE "check"]
  /\ idx' = [idx EXCEPT ![r] = IF idx[r] = items[r] THEN @ ELSE @ + 1]
  /\ UNCHANGED <<fetchVars, registry, backend, notFound, clientVars, resVars, coordVars, ctxDone, errChan, items,
                 werr, listReqs, deleted, errLevels>>

\* r.Delete: DeleteEndpoint checks the context, then issues the request
DeleteStart(r) ==
  /\ wpc[r] = "delete"
  /\ IF LevelCtxDone
     THEN /\ SendErr(r, DeleteErr(r, idx[r], items[r]))
          /\ UNCHANGED delReqs
     ELSE /\ delReqs' = [delReqs EXCEPT ![r] = @ + 1]
          /\ wpc' = [wpc EXCEPT ![r] = "deleting"]
          /\ UNCHANGED <<errChan, werr, errLevels>>
  /\ UNCHANGED <<fetchVars, registry, backend, notFound, clientVars, resVars, coordVars, ctxDone, items, idx, listReqs, deleted>>

\* r.Delete on an item with neither id nor name: an error, no request
DeleteInvalidItem(r) ==
  /\ wpc[r] = "delete"
  /\ SendErr(r, DeleteErr(r, idx[r], items[r]))
  /\ UNCHANGED <<fetchVars, registry, backend, notFound, clientVars, resVars, coordVars, ctxDone, items, idx,
                 listReqs, delReqs, deleted>>

\* where the worker goes after a successful delete of item idx[r]
AfterDelete(r) == IF idx[r] = items[r] THEN "done" ELSE "check"

\* 204: the item is deleted, the loop goes on with the next item
DeleteOk(r) ==
  /\ wpc[r] = "deleting"
  /\ deleted' = [deleted EXCEPT ![r] = @ + 1]
  /\ wpc' = [wpc EXCEPT ![r] = AfterDelete(r)]
  /\ idx' = [idx EXCEPT ![r] = IF idx[r] = items[r] THEN @ ELSE @ + 1]
  /\ UNCHANGED <<fetchVars, registry, backend, notFound, clientVars, resVars, coordVars, ctxDone, errChan, items, werr,
                 listReqs, delReqs, errLevels>>

\* the error is reported but the loop goes on with the next item
DeleteFail_Continue(r) ==
  /\ wpc[r] = "deleting"
  /\ Len(errChan) < Len(levels[LevelOf(r)])
  /\ errChan' = Append(errChan, DeleteErr(r, idx[r], items[r]))
  /\ werr' = [werr EXCEPT ![r] = DeleteErr(r, idx[r], items[r])]
  /\ errLevels' = errLevels \cup {LevelOf(r)}
  /\ wpc' = [wpc EXCEPT ![r] = AfterDelete(r)]
  /\ idx' = [idx EXCEPT ![r] = IF idx[r] = items[r] THEN @ ELSE @ + 1]
  /\ UNCHANGED <<fetchVars, registry, backend, notFound, clientVars, resVars, coordVars, ctxDone, items, listReqs,
                 delReqs, deleted>>

\* the delete failed: the error is reported and the worker returns
DeleteFail(r) ==
  /\ wpc[r] = "deleting"
  /\ SendErr(r, DeleteErr(r, idx[r], items[r]))
  /\ UNCHANGED <<fetchVars, registry, backend, notFound, clientVars, resVars, coordVars, ctxDone, items, idx, listReqs,
                 delReqs, deleted>>

Next ==
  \/ Cancel
  \/ DeleteDataBegin
  \/ StartLevel
  \/ DeleteDataEnd
  \/ WaitDone
  \/ SelectCtxDone
  \/ SelectErr
  \/ SelectDone
  \/ \E r \in Names : ListStart(r)
  \/ \E r \in Names : ListOk(r)
  \/ \E r \in Names : ListFail(r)
  \/ \E r \in Names : CheckCtx(r)
  \/ \E r \in Names : DeleteStart(r)
  \/ \E r \in Names : DeleteInvalidItem(r)
  \/ \E r \in Names : DeleteOk(r)
  \/ \E r \in Names : DeleteFail(r)

Spec == Init /\ [][Next]_vars

\* the steps of deleteData once the deletion order is computed, its context
\* never cancelled
Coordinator ==
  \/ StartLevel
  \/ DeleteDataEnd
  \/ SelectErr
  \/ SelectDone

\* the steps of the worker goroutine of r; a request it has issued is answered
Worker(r) ==
  \/ ListStart(r)
  \/ ListOk(r)
  \/ ListFail(r)
  \/ CheckCtx(r)
  \/ DeleteStart(r)
  \/ DeleteInvalidItem(r)
  \/ DeleteOk(r)
  \/ DeleteFail(r)

\* deleteData under a context that is never cancelled: no Cancel, and so no
\* ctx.Done() case in the select
NextLive ==
  \/ DeleteDataBegin
  \/ StartLevel
  \/ DeleteDataEnd
  \/ WaitDone
  \/ SelectErr
  \/ SelectDone
  \/ \E r \in Names : ListStart(r)
  \/ \E r \in Names : ListOk(r)
  \/ \E r \in Names : ListFail(r)
  \/ \E r \in Names : CheckCtx(r)
  \/ \E r \in Names : DeleteStart(r)
  \/ \E r \in Names : DeleteInvalidItem(r)
  \/ \E r \in Names : DeleteOk(r)
  \/ \E r \in Names : DeleteFail(r)

\* the Go scheduler runs every goroutine that can take a step: deleteData,
\* the goroutine waiting on the WaitGroup, and each worker
Fairness ==
  /\ WF_vars(Coordinator)
  /\ WF_vars(WaitDone)
  /\ \A r \in NamesOf(ExecRes) : WF_vars(Worker(r))

SpecLive == Init /\ [][NextLive]_vars /\ Fairness

----------------------------------------------------------------------------
(* The levelling on its own: any registry within the bounds, any map order *)

InitLevel ==
  /\ registry \in Registries(NumRes, MaxEdges)
  /\ backend = [n \in NamesOf(NumRes) |-> 0]
  /\ notFound = {}
  /\ InitClientIdle
  /\ InitResourceIdle
  /\ InitCoord
  /\ InitWorkers(NamesOf(NumRes))

\* levels, err := registry.GetResourcesForDeletion()
Leveling ==
  /\ cpc = "start"
  /\ \E order \in Perms(Names) : lres' = GetResourcesForDeletion(registry, order)
  /\ cpc' = "leveled"
  /\ UNCHANGED <<fetchVars, registry, backend, notFound, clientVars, resVars, levelIdx, ret, ctxDone, errChan, doneClosed,
                 workerVars>>

NextLevel == Leveling

SpecLevel == InitLevel /\ [][NextLevel]_vars

----------------------------------------------------------------------------
(* listData: every resource fetched concurrently, whatever its dependencies *)

\* ResourceData{Data, Name}, the data held as its number of items; the empty
\* ResourceData of a listing without items has no name
ResourceData(r, n) == IF n = 0 THEN [name |-> "", count |-> 0] ELSE [name |-> r, count |-> n]

\* listData never reads the dependencies of a resource: registries with at
\* most one declared dependency
InitList ==
  /\ registry \in Registries(ExecRes, 1)
  /\ backend \in Backends(NamesOf(ExecRes))
  /\ notFound \in NotFounds(backend)
  /\ InitClientIdle
  /\ InitResourceIdle
  /\ InitCoord
  /\ InitWorkers(NamesOf(ExecRes))

deleteVars == <<lres, levelIdx, idx, delReqs, deleted, errLevels>>

\* listData up to the select: the error channel, a worker goroutine per
\* registered resource, the goroutine that waits for them
ListDataBegin ==
  /\ cpc = "start"
  /\ wpc' = [n \in Names |-> "list"]
  /\ cpc' = "select"
  /\ UNCHANGED <<fetchVars, deleteVars, registry, backend, notFound, clientVars, resVars, ret, ctxDone, errChan,
                 doneClosed, items, werr, listReqs>>

\* errChan <- err; return (the channel holds one error per resource)
FetchSendErr(r, e) ==
  /\ Len(errChan) < Len(registry)
  /\ errChan' = Append(errChan, e)
  /\ werr' = [werr EXCEPT ![r] = e]
  /\ wpc' = [wpc EXCEPT ![r] = "done"]

\* res.List(ctx, ...): GetEndpoint checks the context, then issues the request
FetchListStart(r) ==
  /\ wpc[r] = "list"
  /\ IF ctxDone
     THEN /\ FetchSendErr(r, ListErr(r))
          /\ UNCHANGED listReqs
     ELSE /\ listReqs' = [listReqs EXCEPT ![r] = @ + 1]
          /\ wpc' = [wpc EXCEPT ![r] = "listing"]
          /\ UNCHANGED <<errChan, werr>>
  /\ UNCHANGED <<fetchVars, deleteVars, registry, backend, notFound, clientVars, resVars, cpc, ret, ctxDone,
                 doneClosed, items>>

FetchListOk(r) ==
  /\ wpc[r] = "listing"
  /\ items' = [items EXCEPT ![r] = Listed(r)]
  /\ wpc' = [wpc EXCEPT ![r] = "lock"]
  /\ UNCHANGED <<fetchVars, deleteVars, registry, backend, notFound, clientVars, resVars, cpc, ret, ctxDone,
                 errChan, doneClosed, werr, listReqs>>

FetchListFail(r) ==
  /\ wpc[r] = "listing"
  /\ FetchSendErr(r, ListErr(r))
  /\ UNCHANGED <<fetchVars, deleteVars, registry, backend, notFound, clientVars, resVars, cpc, ret, ctxDone,
                 doneClosed, items, listReqs>>

\* the lock taken although another worker holds it
FetchLock_NoWait(r) ==
  /\ wpc[r] = "lock"
  /\ mutex' = r
  /\ wpc' = [wpc EXCEPT ![r] = "append"]
  /\ UNCHANGED <<results, errClosed, deleteVars, registry, backend, notFound, clientVars, resVars, cpc, ret,
                 ctxDone, errChan, doneClosed, items, werr, listReqs>>

\* mutex.Lock()
FetchLock(r) ==
  /\ wpc[r] = "lock"
  /\ mutex = ""
  /\ mutex' = r
  /\ wpc' = [wpc EXCEPT ![r] = "append"]
  /\ UNCHANGED <<results, errClosed, deleteVars, registry, backend, notFound, clientVars, resVars, cpc, ret,
                 ctxDone, errChan, doneClosed, items, werr, listReqs>>

\* results = append(results, data); mutex.Unlock()
FetchAppend(r) ==
  /\ wpc[r] = "append"
  /\ results' = Append(results, ResourceData(r, items[r]))
  /\ mutex' = ""
  /\ wpc' = [wpc EXCEPT ![r] = "done"]
  /\ UNCHANGED <<errClosed, deleteVars, registry, backend, notFound, clientVars, resVars, cpc, ret, ctxDone,
                 errChan, doneClosed, items, werr, listReqs>>

\* go func() { wg.Wait(); close(done) }()
FetchWaitDone ==
  /\ cpc \in {"select", "returned"}
  /\ ~doneClosed
  /\ \A n \in Names : wpc[n] = "done"
  /\ doneClosed' = TRUE
  /\ UNCHANGED <<fetchVars, deleteVars, registry, backend, notFound, clientVars, resVars, cpc, ret, ctxDone,
                 errChan, wpc, items, werr, listReqs>>

\* the error channel closed on the cancellation path as well
FetchSelectCtxDone_Closes ==
  /\ cpc = "select"
  /\ CtxReady
  /\ cpc' = "returned"
  /\ ret' = Canceled
  /\ errClosed' = TRUE
  /\ UNCHANGED <<results, mutex, deleteVars, registry, backend, notFound, clientVars, resVars, ctxDone, errChan,
                 doneClosed, wpc, items, werr, listReqs>>

\* case <-ctx.Done(): return nil, ctx.Err()
FetchSelectCtxDone ==
  /\ cpc = "select"
  /\ CtxReady
  /\ cpc' = "returned"
  /\ ret' = Canceled
  /\ UNCHANGED <<fetchVars, deleteVars, registry, backend, notFound, clientVars, resVars, ctxDone, errChan,
                 doneClosed, wpc, items, werr, listReqs>>

\* the results returned although an error is buffered
FetchSelectDone_Partial ==
  /\ cpc = "select"
  /\ DoneReady
  /\ errClosed' = TRUE
  /\ cpc' = "returned"
  /\ ret' = NilRet
  /\ errChan' = errChan
  /\ UNCHANGED <<results, mutex, deleteVars, registry, backend, notFound, clientVars, resVars, ctxDone,
                 doneClosed, wpc, items, werr, listReqs>>

\* case <-done: close(errChan); the first buffered error, or the results
FetchSelectDone ==
  /\ cpc = "select"
  /\ DoneReady
  /\ errClosed' = TRUE
  /\ cpc' = "returned"
  /\ IF Len(errChan) > 0
     THEN ret' = Head(errChan) /\ errChan' = Tail(errChan)
     ELSE ret' = NilRet /\ errChan' = errChan
  /\ UNCHANGED <<results, mutex, deleteVars, registry, backend, notFound, clientVars, resVars, ctxDone,
                 doneClosed, wpc, items, werr, listReqs>>

NextList ==
  \/ Cancel
  \/ ListDataBegin
  \/ FetchWaitDone
  \/ FetchSelectCtxDone
  \/ FetchSelectDone
  \/ \E r \in Names : FetchListStart(r)
  \/ \E r \in Names : FetchListOk(r)
  \/ \E r \in Names : FetchListFail(r)
  \/ \E r \in Names : FetchLock(r)
  \/ \E r \in Names : FetchAppend(r)

SpecList == InitList /\ [][NextList]_vars

----------------------------------------------------------------------------
(* One call of the client on its own: GetEndpoint walking the pages of a   *)
(* collection, or DeleteEndpoint deleting one item, against a server that  *)
(* answers each request as it pleases.                                     *)

execVars == <<registry, lres, cpc, levelIdx, ret, errChan, doneClosed, wpc,
              backend, items, idx, werr, listReqs, delReqs, deleted, errLevels,
              results, mutex, errClosed, notFound>>

\* what the call returned: nothing yet, data and a nil error, ctx.Err(), or
\* another error
ClientRet(kind, err, data) ==
  [kind |-> kind, err |-> err, data |-> data, path |-> <<>>, status |-> 0]

\* fmt.Errorf("unable to delete item %s: status code %d", endpointWithID,
\* resp.StatusCode)
DeleteStatusError(path, status) ==
  [kind |-> "error", err |-> "unable to delete item", data |-> <<>>,
   path |-> path, status |-> status]

InitClient ==
  /\ registry = <<>>
  /\ backend = [n \in {} |-> 0]
  /\ notFound = {}
  /\ InitCoord
  /\ InitWorkers({})
  /\ op \in {"get", "delete"}
  /\ clpc = "top"
  /\ pageURL = IF op = "get" THEN EndpointURL(endpoint) ELSE EndpointURL(endpointWithID)
  /\ getResult = <<>>
  /\ reqLog = <<>>
  /\ served = <<>>
  /\ waits = <<>>
  /\ cret = ClientRet("none", "", <<>>)
  /\ InitResourceIdle

\* the context never looked at
CtxErr_Ignored == FALSE

\* ctx.Err() != nil
CtxErr == ctxDone

\* the top of GetEndpoint's loop: ctx.Err(), then the request for pageURL
GetRequest ==
  /\ op = "get"
  /\ clpc = "top"
  /\ IF CtxErr
     THEN /\ clpc' = "returned"
          /\ cret' = ClientRet("canceled", "context canceled", <<>>)
          /\ UNCHANGED reqLog
     ELSE /\ Len(reqLog) < MaxRequests
          /\ reqLog' = Append(reqLog, pageURL)
          /\ clpc' = "inflight"
          /\ UNCHANGED cret
  /\ UNCHANGED <<execVars, resVars, ctxDone, op, pageURL, getResult, served, waits>>

\* a 429 ends the walk with an error
IsRateLimit_Never(page) == FALSE

\* errRateLimit, ok := err.(*RateLimitError)
IsRateLimit(page) == page.err = "rate limited"

\* the walk starts again from the first page after the wait
OnRateLimit_Restart(url, acc, page) ==
  [pageURL |-> EndpointURL(endpoint), result |-> <<>>, wait |-> page.retryAfter]

\* time.Sleep(errRateLimit.RetryAfter); continue
OnRateLimit(url, acc, page) ==
  [pageURL |-> url, result |-> acc, wait |-> page.retryAfter]

\* the rest of the iteration once the request is answered
GetRespond ==
  /\ op = "get"
  /\ clpc = "inflight"
  /\ \E resp \in GetResponses(Len(reqLog)) :
       LET page == getEndpointPage(pageURL, resp)
           retry == OnRateLimit(pageURL, getResult, page)
       IN /\ served' = Append(served, resp)
          /\ IF page.err # ""
             THEN IF IsRateLimit(page)
                  THEN /\ waits' = Append(waits, retry.wait)
                       /\ pageURL' = retry.pageURL
                       /\ getResult' = retry.result
                       /\ clpc' = "top"
                       /\ UNCHANGED cret
                  ELSE /\ cret' = ClientRet("error", page.err, <<>>)
                       /\ clpc' = "returned"
                       /\ UNCHANGED <<waits, pageURL, getResult>>
             ELSE IF Len(page.data) = 0
                  THEN /\ cret' = ClientRet("ok", "", <<>>)
                       /\ clpc' = "returned"
                       /\ UNCHANGED <<waits, pageURL, getResult>>
                  ELSE /\ getResult' = getResult \o page.data
                       /\ IF Len(page.nextURL) = 0
                          THEN /\ cret' = ClientRet("ok", "", getResult')
                               /\ clpc' = "returned"
                               /\ UNCHANGED <<waits, pageURL>>
                          ELSE /\ pageURL' = page.nextURL
                               /\ clpc' = "top"
                               /\ UNCHANGED <<waits, cret>>
  /\ UNCHANGED <<execVars, resVars, ctxDone, op, reqLog>>

\* the top of DeleteEndpoint's loop: ctx.Err(), then the request for url
DeleteRequest ==
  /\ op = "delete"
  /\ clpc = "top"
  /\ IF CtxErr
     THEN /\ clpc' = "returned"
          /\ cret' = ClientRet("canceled", "context canceled", <<>>)
          /\ UNCHANGED reqLog
     ELSE /\ Len(reqLog) < MaxRequests
          /\ reqLog' = Append(reqLog, pageURL)
          /\ clpc' = "inflight"
          /\ UNCHANGED cret
  /\ UNCHANGED <<execVars, resVars, ctxDone, op, pageURL, getResult, served, waits>>

\* 200 taken for a success as well
DeleteSucceeded_Any2xx(resp) == resp.status \in {200, 204}

\* case http.StatusNoContent
DeleteSucceeded(resp) == resp.status = 204

\* the rest of the iteration once the request is answered
DeleteRespond ==
  /\ op = "delete"
  /\ clpc = "inflight"
  /\ \E resp \in DeleteResponses :
       /\ served' = Append(served, resp)
       /\ IF resp.status = 0
          THEN /\ cret' = ClientRet("error", "error making request", <<>>)
               /\ clpc' = "returned"
               /\ UNCHANGED waits
          ELSE IF DeleteSucceeded(resp)
          THEN /\ cret' = ClientRet("ok", "", <<>>)
               /\ clpc' = "returned"
               /\ UNCHANGED waits
          ELSE IF resp.status = 429
          THEN /\ waits' = Append(waits, retryAfterDuration(resp))
               /\ clpc' = "top"
               /\ UNCHANGED cret
          ELSE /\ cret' = DeleteStatusError(EndpointOf(pageURL), resp.status)
               /\ clpc' = "returned"
               /\ UNCHANGED waits
  /\ UNCHANGED <<execVars, resVars, ctxDone, op, pageURL, getResult, reqLog>>

NextClient ==
  \/ Cancel
  \/ GetRequest
  \/ GetRespond
  \/ DeleteRequest
  \/ DeleteRespond

SpecClient == InitClient /\ [][NextClient]_vars

----------------------------------------------------------------------------
(* One List or one Delete of one resource, over the client's calls.  The    *)
(* context stays live here: a call that finds it cancelled is followed in   *)
(* the specification of the client.                                         *)

\* List or Delete of a resource starts: the entry of Delete, or List at its
\* first GetEndpoint(ctx, r.path)
InitResource ==
  /\ registry = <<>>
  /\ backend = [n \in {} |-> 0]
  /\ notFound = {}
  /\ InitCoord
  /\ InitWorkers({})
  /\ rkind \in ResourceKinds
  /\ rpc \in {"list", "delete"}
  /\ ritem \in IF rpc = "delete" THEN DeleteItems ELSE {NoItem}
  /\ ridx = 0
  /\ rdata = <<>>
  /\ rret = NoResult
  /\ op = IF rpc = "list" THEN "get" ELSE "delete"
  /\ clpc = IF rpc = "list" THEN "top" ELSE "idle"
  /\ pageURL = IF rpc = "list" THEN EndpointURL(endpoint) ELSE <<>>
  /\ getResult = <<>>
  /\ reqLog = <<>>
  /\ served = <<>>
  /\ waits = <<>>
  /\ cret = ClientRet("none", "", <<>>)

\* client.GetEndpoint(ctx, path) or client.DeleteEndpoint(ctx, path) is
\* entered
StartCall(o, path) ==
  /\ op' = o
  /\ clpc' = "top"
  /\ pageURL' = EndpointURL(path)
  /\ getResult' = <<>>
  /\ cret' = ClientRet("none", "", <<>>)
  /\ UNCHANGED <<reqLog, served, waits>>

\* Delete up to its first DeleteEndpoint: the id of the item, the path of
\* the first secret or of the item
ResourceDelete ==
  /\ rpc = "delete"
  /\ LET id == ItemID(rkind, ritem)
     IN IF ~id.ok
        THEN /\ rret' = InvalidItemError(rkind)
             /\ rpc' = "returned"
             /\ UNCHANGED <<ridx, clientVars>>
        ELSE IF rkind = "config-store" /\ Len(ritem.secret) > 0
        THEN /\ StartCall("delete", SecretPath(id.val, ritem.secret[1]))
             /\ ridx' = 1
             /\ rpc' = "secret"
             /\ UNCHANGED rret
        ELSE /\ StartCall("delete", ItemPath(id.val))
             /\ rpc' = "item"
             /\ UNCHANGED <<ridx, rret>>
  /\ UNCHANGED <<execVars, ctxDone, rkind, ritem, rdata>>

\* the error of a secret delete passed over
SecretDeleted_KeepsGoing ==
  /\ rpc = "secret"
  /\ clpc = "returned"
  /\ LET id == ItemID(rkind, ritem)
     IN IF ridx < Len(ritem.secret)
        THEN /\ StartCall("delete", SecretPath(id.val, ritem.secret[ridx + 1]))
             /\ ridx' = ridx + 1
             /\ UNCHANGED <<rpc, rret>>
        ELSE /\ StartCall("delete", ItemPath(id.val))
             /\ rpc' = "item"
             /\ UNCHANGED <<ridx, rret>>
  /\ UNCHANGED <<execVars, ctxDone, rkind, ritem, rdata>>

\* ConfigStoreResource.Delete after the DeleteEndpoint of a secret
SecretDeleted ==
  /\ rpc = "secret"
  /\ clpc = "returned"
  /\ LET id == ItemID(rkind, ritem)
     IN IF cret.kind # "ok"
        THEN /\ rret' = ResResult("error", "failed to delete secret", <<>>)
             /\ rpc' = "returned"
             /\ UNCHANGED <<ridx, clientVars>>
        ELSE IF ridx < Len(ritem.secret)
        THEN /\ StartCall("delete", SecretPath(id.val, ritem.secret[ridx + 1]))
             /\ ridx' = ridx + 1
             /\ UNCHANGED <<rpc, rret>>
        ELSE /\ StartCall("delete", ItemPath(id.val))
             /\ rpc' = "item"
             /\ UNCHANGED <<ridx, rret>>
  /\ UNCHANGED <<execVars, ctxDone, rkind, ritem, rdata>>

\* Delete after the DeleteEndpoint of the item
ItemDeleted ==
  /\ rpc = "item"
  /\ clpc = "returned"
  /\ rret' = IF cret.kind = "ok"
             THEN ResResult("ok", "", <<>>)
             ELSE ResResult("error", "error deleting resource", <<>>)
  /\ rpc' = "returned"
  /\ UNCHANGED <<execVars, ctxDone, clientVars, rkind, ritem, ridx, rdata>>

\* List after GetEndpoint(ctx, r.path): the error, no data, the data, or the
\* nested listing of the first item
ListReturned ==
  /\ rpc = "list"
  /\ clpc = "returned"
  /\ IF cret.kind # "ok"
     THEN /\ rret' = ResResult("error", "failed to list", <<>>)
          /\ rpc' = "returned"
          /\ UNCHANGED <<ridx, rdata, clientVars>>
     ELSE IF Len(cret.data) = 0
     THEN /\ rret' = ResResult("ok", "", <<>>)
          /\ rpc' = "returned"
          /\ UNCHANGED <<ridx, rdata, clientVars>>
     ELSE IF rkind = "base"
     THEN /\ rret' = ResResult("ok", "", cret.data)
          /\ rpc' = "returned"
          /\ UNCHANGED <<ridx, rdata, clientVars>>
     ELSE IF "id" \notin DOMAIN cret.data[1]
     THEN /\ rret' = ResResult("error", "invalid ID", <<>>)
          /\ rpc' = "returned"
          /\ UNCHANGED <<ridx, rdata, clientVars>>
     ELSE /\ rdata' = cret.data
          /\ ridx' = 1
          /\ rpc' = "nested"
          /\ StartCall("get", NestedPath(rkind, cret.data[1]))
          /\ UNCHANGED rret
  /\ UNCHANGED <<execVars, ctxDone, rkind, ritem>>

\* the rest of the iteration of List over its items once the nested
\* GetEndpoint has returned, and the head of the next iteration; of what the
\* nested call returned only the data is read (consumerGroups, _ := ...,
\* secrets, _ := ...)
NestedReturned ==
  /\ rpc = "nested"
  /\ clpc = "returned"
  /\ LET keyField == IF rkind = "consumer" THEN "id" ELSE "key"
         data == [k \in 1..Len(rdata) |->
                    IF k = ridx
                    THEN WithNested(rkind, rdata[k], cret.data)
                    ELSE rdata[k]]
     IN IF \E j \in 1..Len(cret.data) : keyField \notin DOMAIN cret.data[j]
        THEN /\ rret' = ResResult("error", "invalid ID", <<>>)
             /\ rpc' = "returned"
             /\ UNCHANGED <<ridx, rdata, clientVars>>
        ELSE IF ridx = Len(rdata)
        THEN /\ rdata' = data
             /\ rret' = ResResult("ok", "", data)
             /\ rpc' = "returned"
             /\ UNCHANGED <<ridx, clientVars>>
        ELSE IF "id" \notin DOMAIN rdata[ridx + 1]
        THEN /\ rret' = ResResult("error", "invalid ID", <<>>)
             /\ rpc' = "returned"
             /\ UNCHANGED <<ridx, rdata, clientVars>>
        ELSE /\ rdata' = data
             /\ ridx' = ridx + 1
             /\ StartCall("get", NestedPath(rkind, rdata[ridx + 1]))
             /\ UNCHANGED <<rpc, rret>>
  /\ UNCHANGED <<execVars, ctxDone, rkind, ritem>>

NextResource ==
  \/ GetRequest
  \/ GetRespond
  \/ DeleteRequest
  \/ DeleteRespond
  \/ ResourceDelete
  \/ SecretDeleted
  \/ ItemDeleted
  \/ ListReturned
  \/ NestedReturned

SpecResource == InitResource /\ [][NextResource]_vars

----------------------------------------------------------------------------
(* What the claims speak of *)

\* GetResourcesForDeletion has returned
Leveled == cpc # "start"

\* resource r declares dependency d
DependsOn(r, d) ==
  \E i \in 1..Len(registry) :
    /\ registry[i].name = r
    /\ d \in SeqToSet(registry[i].dependencies)

\* every declared dependency names a registered resource
DepsResolve == \A r \in Names, d \in Names \cup {Ghost} : DependsOn(r, d) => d \in Names

\* d is reached from r along at most n declared dependencies (at least one)
RECURSIVE ReachesIn(_, _, _)
ReachesIn(r, d, n) ==
  IF n = 0 THEN FALSE
  ELSE \/ DependsOn(r, d)
       \/ \E m \in Names : DependsOn(r, m) /\ ReachesIn(m, d, n - 1)

Reaches(r, d) == ReachesIn(r, d, Cardinality(Names))

Cyclic == \E r \in Names : Reaches(r, r)

\* the positions <<level, place>> at which r is found in the levels
Places(r) ==
  {p \in (1..Len(levels)) \X (1..Cardinality(Names) + 1) :
     p[2] <= Len(levels[p[1]]) /\ levels[p[1]][p[2]] = r}

\* the places of r in the concatenation of the levels
FlatPlaces(r) == {i \in 1..Len(Flatten(levels)) : Flatten(levels)[i] = r}

\* C5: when every declared dependency resolves and there is no cycle,
\* GetResourcesForDeletion succeeds, every registered resource is in exactly
\* one level and nothing else is, and in the concatenation of the levels every
\* resource stands before each of its dependencies.
C5_EveryResourceOnceInTopologicalOrder ==
  (Leveled /\ DepsResolve /\ ~Cyclic) =>
    /\ lres.err = ""
    /\ \A r \in Names : Cardinality(Places(r)) = 1
    /\ SeqToSet(Flatten(levels)) = Names
    /\ \A r, d \in Names :
         DependsOn(r, d) =>
           \A i \in FlatPlaces(r), j \in FlatPlaces(d) : i < j

\* an acyclic, resolved registry in which one resource is the dependency of
\* two others has been levelled
C5_Witness ==
  /\ Leveled /\ DepsResolve /\ ~Cyclic
  /\ Len(levels) >= 2
  /\ \E r, q, d \in Names : r # q /\ DependsOn(r, d) /\ DependsOn(q, d)

\* C6: in a levelling that succeeded, a resource is in a strictly earlier
\* level than each of its declared dependencies, and two resources related by
\* a chain of dependencies are never in the same level.
C6_DependentStrictlyEarlier ==
  (Leveled /\ lres.err = "") =>
    /\ \A r, d \in Names :
         DependsOn(r, d) => (LevelOf(r) >= 1 /\ LevelOf(r) < LevelOf(d))
    /\ \A r, d \in Names : Reaches(r, d) => LevelOf(r) # LevelOf(d)

\* a chain of three resources has been levelled
C6_Witness ==
  /\ Leveled /\ lres.err = ""
  /\ \E r, m, d \in Names : DependsOn(r, m) /\ DependsOn(m, d) /\ LevelOf(d) = 3

\* C7: a registry with a cycle (a self-dependency included) gets an error and
\* no levels at all; the error is the cycle error when every dependency
\* resolves.
C7_CycleGivesErrorAndNoLevels ==
  (Leveled /\ Cyclic) =>
    /\ lres.err # ""
    /\ levels = <<>>
    /\ DepsResolve => lres.err = "cyclic dependency"

\* a cycle has been detected although some resource lies outside it and was
\* placed in the first level
C7_Witness ==
  /\ Leveled /\ Cyclic /\ DepsResolve
  /\ lres.err = "cyclic dependency"
  /\ \E r \in Names : \A q \in Names : ~DependsOn(q, r) /\ ~DependsOn(r, q)

\* C9: a dependency that names no registered resource makes the construction
\* fail, with no levels; when every dependency resolves, the graph is built
\* and its nodes are exactly the registered names.
C9_MissingDependencyFails ==
  Leveled =>
    /\ ~DepsResolve => (lres.err = "dependency not found" /\ levels = <<>>)
    /\ DepsResolve =>
         /\ lres.err # "dependency not found"
         /\ BuildGraph(registry, deleteOrder).ok
         /\ DOMAIN BuildGraph(registry, deleteOrder).graph = Names

\* a registry with a dependency on an unregistered name has been refused
C9_Witness ==
  /\ Leveled /\ ~DepsResolve
  /\ lres.err = "dependency not found"
  /\ \E r \in Names : DependsOn(r, Ghost)

----------------------------------------------------------------------------
(* deleteData *)

\* the worker goroutine of r has been started
Started(r) == wpc[r] # "idle"

\* the worker goroutine of r has returned
Finished(r) == wpc[r] = "done"

\* HTTP requests issued for r, listing and deletes
Requests(r) == listReqs[r] + delReqs[r]

\* a request of r is in flight
InFlight(r) == wpc[r] \in {"listing", "deleting"}

\* the resources of level l
LevelSet(l) == SeqToSet(levels[l])

\* C1: a worker of a level is started, and a request for a resource of that
\* level is issued, only when every worker of every earlier level has finished.
C1_LevelsStrictlySequential ==
  \A l \in 1..Len(levels) :
    (\E r \in LevelSet(l) : Started(r) \/ Requests(r) > 0) =>
      \A k \in 1..(l - 1) : \A q \in LevelSet(k) : Finished(q) /\ ~InFlight(q)

\* a worker of the second level has issued a request
C1_Witness ==
  \E r \in Names : LevelOf(r) = 2 /\ Requests(r) > 0

\* C2: once a worker of level i has sent an error, no later level is started
\* and deleteData does not return nil.
C2_ErrorStopsLaterLevels ==
  \A l \in errLevels :
    /\ levelIdx <= l
    /\ \A r \in Names : LevelOf(r) > l => ~Started(r)
    /\ cpc = "returned" => ret # NilRet

C4_CancellationTakesPrecedence ==
  [][(cpc = "select" /\ ctxDone /\ cpc' # "select")
       => (cpc' = "returned" /\ ret' = Canceled)]_vars

\* C8: when the deletion order cannot be computed, deleteData returns the
\* error, no worker is ever started and no request is ever issued; and the
\* level loop is entered only for a registry whose dependencies all resolve and
\* have no cycle.
C8_OrderErrorBeforeAnyWork ==
  /\ (Leveled /\ lres.err # "") =>
       /\ cpc = "returned"
       /\ ret = OrderErr
       /\ levelIdx = 0
       /\ \A r \in Names : ~Started(r) /\ Requests(r) = 0
  /\ (cpc = "level" /\ levelIdx = 1) => (DepsResolve /\ ~Cyclic)

\* deleteData has returned the order error
C8_Witness ==
  /\ cpc = "returned" /\ ret = OrderErr
  /\ ~DepsResolve \/ Cyclic

\* the worker of r reported the failure of an item delete
DeleteFailed(r) == werr[r].kind = "delete"

\* C10: a worker that reported a failed item delete has returned; the error
\* names the item it was at, counted from 1, and the number of items listed;
\* the items before it are deleted, at most one request was made for the
\* failing item and none for a later one; from then on the resource sees no
\* further delete request and its deleted items stay deleted.
C10_Inv ==
  \A r \in Names :
    DeleteFailed(r) =>
      /\ Finished(r)
      /\ werr[r] = DeleteErr(r, idx[r], items[r])
      /\ 1 <= werr[r].item /\ werr[r].item <= werr[r].total
      /\ werr[r].total = backend[r]
      /\ deleted[r] = werr[r].item - 1
      /\ delReqs[r] \in {deleted[r], deleted[r] + 1}

C10_Step ==
  \A r \in Names :
    DeleteFailed(r) =>
      /\ delReqs'[r] = delReqs[r]
      /\ deleted'[r] = deleted[r]
      /\ werr'[r] = werr[r]

C10_DeleteFailFast == [][C10_Inv /\ C10_Inv' /\ C10_Step]_vars

\* of three items the second delete failed: two delete requests, one item
\* deleted, the error names item 2 of 3
C10_Witness ==
  \E r \in Names :
    /\ werr[r] = DeleteErr(r, 2, 3)
    /\ delReqs[r] = 2
    /\ deleted[r] = 1
    /\ Finished(r)

\* C11: the item deletes of one resource are strictly sequential in list
\* order: the requests of a resource that have not returned success number at
\* most one, a request in flight is the request for item idx whose
\* predecessors are all deleted, and a delete request is issued only by a
\* worker with no request in flight, for the item that follows the deleted
\* ones, one request at a time.
C11_Inv ==
  \A r \in Names :
    /\ delReqs[r] - deleted[r] \in {0, 1}
    /\ wpc[r] = "deleting" => (delReqs[r] = idx[r] /\ deleted[r] = idx[r] - 1)
    /\ wpc[r] # "deleting" => (delReqs[r] = deleted[r] \/ DeleteFailed(r))

C11_Step ==
  \A r \in Names :
    delReqs'[r] # delReqs[r] =>
      /\ delReqs'[r] = delReqs[r] + 1
      /\ ~InFlight(r)
      /\ deleted[r] = delReqs[r]
      /\ idx[r] = deleted[r] + 1
      /\ wpc'[r] = "deleting"

C11_ItemDeletesSequential == [][C11_Inv /\ C11_Inv' /\ C11_Step]_vars

\* the delete of the second item is in flight, the first item is deleted
C11_Witness ==
  \E r \in Names :
    /\ wpc[r] = "deleting"
    /\ delReqs[r] = 2
    /\ deleted[r] = 1

\* the worker of r stopped at the check of levelCtx: it returned with items
\* left, no request in flight and nothing sent on errChan
StoppedByCheck(r) ==
  /\ Finished(r)
  /\ items[r] > 0
  /\ deleted[r] < items[r]
  /\ delReqs[r] = deleted[r]
  /\ werr[r] = NoErr

\* C12: the worker checks the cancellation scope of its level before each item
\* delete: it comes to an item's delete only from a check that found the
\* scope live, a delete request is issued only from there, and a check that
\* finds the scope cancelled makes the worker return without a delete request
\* and without anything sent on the error channel.
C12_Step ==
  \A r \in Names :
    /\ (wpc'[r] = "delete" /\ wpc[r] # "delete") => (wpc[r] = "check" /\ ~LevelCtxDone)
    /\ delReqs'[r] # delReqs[r] => wpc[r] = "delete"
    /\ (wpc[r] = "check" /\ wpc'[r] # "check" /\ LevelCtxDone) =>
         /\ wpc'[r] = "done"
         /\ delReqs' = delReqs
         /\ deleted' = deleted
         /\ errChan' = errChan
         /\ werr' = werr
         /\ errLevels' = errLevels

C12_CancelledCheckStopsSilently == [][C12_Step]_vars

\* the error of another worker of the level made deleteData return, which
\* cancelled the level's scope; this worker had deleted one item and stopped
\* at the check before the next, with no error
C12_Witness ==
  /\ ~ctxDone
  /\ cpc = "returned"
  /\ \E r \in Names : StoppedByCheck(r) /\ deleted[r] = 1 /\ idx[r] = 2

----------------------------------------------------------------------------
(* listData *)

\* the workers of listData whose listing failed
FetchFailed == {r \in Names : werr[r] # NoErr}

\* the data of r is in the shared results
InResults(r) ==
  \E i \in 1..Len(results) : results[i] = ResourceData(r, backend[r])

\* C13: in listData the failure of a worker changes nothing for the others
\* and cancels nothing; without cancellation listData returns only when every
\* worker has finished, each worker that did not fail having made its request
\* and appended its data; with a failed worker it returns one of the errors
\* the workers sent, the others staying in the channel, and no results;
\* without one it returns the results.
C13_Inv ==
  (cpc = "returned" /\ ~ctxDone) =>
    /\ \A r \in Names : Finished(r)
    /\ \A r \in Names \ FetchFailed : listReqs[r] = 1 /\ InResults(r)
    /\ Len(results) = Cardinality(Names \ FetchFailed)
    /\ FetchFailed # {} =>
         /\ ret.kind = "list"
         /\ \E r \in FetchFailed : ret = werr[r]
         /\ Len(errChan) = Cardinality(FetchFailed) - 1
    /\ FetchFailed = {} => ret = NilRet

C13_Step ==
  \A r \in Names :
    (werr'[r] # NoErr /\ werr[r] = NoErr) =>
      /\ ctxDone' = ctxDone
      /\ cpc' = cpc
      /\ \A q \in Names \ {r} :
           /\ wpc'[q] = wpc[q]
           /\ werr'[q] = werr[q]
           /\ listReqs'[q] = listReqs[q]

C13_FetchFailureIsolated == [][C13_Inv /\ C13_Inv' /\ C13_Step]_vars

\* one listing failed, the other worker fetched its items and appended them,
\* and listData, not cancelled, returned the error of the first
C13_Witness ==
  /\ cpc = "returned" /\ ~ctxDone
  /\ ret.kind = "list"
  /\ \E r, q \in Names :
       /\ ret = werr[r]
       /\ werr[q] = NoErr /\ items[q] > 0 /\ InResults(q)
       /\ results = <<ResourceData(q, items[q])>>

\* C20: a resource whose collection endpoint answers 404 is listed as empty
\* without an error, and the results listData returns hold no entry for it:
\* there are no more entries than resources whose collection exists, and
\* every entry names a resource that returned at least one item and holds its
\* items.
C20_NotFoundLeavesNoEntry ==
  /\ \A r \in notFound :
       wpc[r] \in {"lock", "append", "done"} => (werr[r] = NoErr => items[r] = 0)
  /\ (cpc = "returned" /\ ret = NilRet /\ notFound # {}) =>
       /\ Len(results) <= Cardinality(Names \ notFound)
       /\ \A i \in 1..Len(results) :
            \E q \in Names \ notFound :
              items[q] >= 1 /\ results[i] = [name |-> q, count |-> items[q]]

----------------------------------------------------------------------------
(* The client *)

\* the call has returned
Returned == clpc = "returned"

Last(sq) == sq[Len(sq)]

\* an item as the caller is to see it: what the server sent but the timestamps
ExpectedItem(raw) == [id |-> raw.id, key |-> raw.key, arr |-> raw.arr]

ExpectedItems(arr) == [k \in 1..Len(arr) |-> ExpectedItem(arr[k])]

\* the data arrays of the pages, in page order
RECURSIVE ConcatData(_)
ConcatData(pages) ==
  IF pages = <<>> THEN <<>>
  ELSE ExpectedItems(Head(pages).data) \o ConcatData(Tail(pages))

\* the array of a page that holds its items: data, or items when data is empty
ItemsOf(resp) == IF Len(resp.data) > 0 THEN resp.data ELSE resp.items

\* the items of the pages, in page order
RECURSIVE ConcatItems(_)
ConcatItems(pages) ==
  IF pages = <<>> THEN <<>>
  ELSE ExpectedItems(ItemsOf(Head(pages))) \o ConcatItems(Tail(pages))

\* a decoded page
IsPage(resp) == resp.status = 200 /\ resp.decodes

\* a page of the first style: a data array and a next link
IsPageA(resp) == IsPage(resp) /\ resp.items = <<>> /\ ~resp.has_next_page

\* a page of the second style: an items array and a page object
IsPageB(resp) == IsPage(resp) /\ resp.data = <<>> /\ resp.next = <<>>

\* the URL of the link the server sends with the page that answers request n
LinkURL(n) == baseURL \o <<"/">> \o endpoint \o <<"?offset=", NumTok[n]>>

\* C14: when the server answered the walk with pages of the first style, all
\* with a next link but the last, GetEndpoint made one request per page, the
\* first to the endpoint and each following one to the link of the page
\* before, and returned the data arrays of all the pages, concatenated in page
\* order, without created_at and updated_at.
C14_StyleAWalkConcatenates ==
  (/\ op = "get" /\ Returned
   /\ served # <<>>
   /\ \A i \in 1..Len(served) : IsPageA(served[i])
   /\ \A i \in 1..(Len(served) - 1) : served[i].next # <<>>
   /\ Last(served).next = <<>>)
  => /\ Len(reqLog) = Len(served)
     /\ reqLog[1] = EndpointURL(endpoint)
     /\ \A i \in 1..(Len(served) - 1) : reqLog[i + 1] = LinkURL(i)
     /\ cret.kind = "ok"
     /\ cret.data = ConcatData(served)

\* C15: when the walk ends on a page without items and without a next page,
\* GetEndpoint returns no error and the items of all the earlier pages.
C15_EmptyLastPageKeepsAccumulated ==
  (/\ op = "get" /\ Returned
   /\ served # <<>>
   /\ IsPage(Last(served))
   /\ Last(served).data = <<>> /\ Last(served).items = <<>>
   /\ Last(served).next = <<>> /\ ~Last(served).has_next_page)
  => /\ cret.kind = "ok"
     /\ cret.data = ConcatItems(SelectSeq(served, IsPage))

\* C16: when the first answer is a page of the second style with
\* has_next_page, a second request is issued, to the URL of the first with
\* ?page.next_cursor=<token> appended; when the second answer is a page of
\* that style without has_next_page, there is no third request and
\* GetEndpoint returns the items of the two pages in order.
C16_StyleBWalkTwoRequests ==
  (/\ op = "get" /\ Returned /\ ~ctxDone
   /\ served # <<>>
   /\ IsPageB(served[1]) /\ served[1].has_next_page)
  => /\ Len(reqLog) >= 2
     /\ reqLog[2] = reqLog[1] \o <<"?page.next_cursor=">> \o served[1].next_cursor
     /\ (IsPageB(served[2]) /\ ~served[2].has_next_page) =>
          /\ Len(reqLog) = 2
          /\ cret.kind = "ok"
          /\ cret.data = ExpectedItems(served[1].items) \o ExpectedItems(served[2].items)

\* the responses that were rate limits, in order
RateLimits == SelectSeq(served, LAMBDA resp : resp.status = 429)

\* C17: a 429 to a page request leaves the URL of the page and the items
\* accumulated as they were and ends nothing: the call goes back to the top of
\* its loop having slept once more, and the request that follows a 429 goes
\* to the URL the 429 answered.
C17_Step ==
  (op = "get" /\ Len(served') = Len(served) + 1 /\ Last(served').status = 429) =>
    /\ pageURL' = pageURL
    /\ getResult' = getResult
    /\ reqLog' = reqLog
    /\ Len(waits') = Len(waits) + 1
    /\ clpc' = "top"
    /\ cret' = cret

C17_Inv ==
  op = "get" =>
    \A i \in 1..Len(served) :
      (served[i].status = 429 /\ i < Len(reqLog)) => reqLog[i + 1] = reqLog[i]

C17_RateLimitKeepsCursor == [][C17_Step /\ C17_Inv']_vars

\* the second page was rate limited with the first page's items accumulated,
\* and requested again at its own URL
C17_Witness ==
  /\ op = "get"
  /\ Len(reqLog) = 3
  /\ served[1].status = 200 /\ served[2].status = 429
  /\ reqLog[2] # reqLog[1]
  /\ reqLog[3] = reqLog[2]
  /\ Len(getResult) = MaxPageItems

\* the outcome of DeleteEndpoint the response tells
DeleteOutcome(resp) ==
  IF resp.status = 204 THEN ClientRet("ok", "", <<>>)
  ELSE IF resp.status = 0 THEN ClientRet("error", "error making request", <<>>)
  ELSE DeleteStatusError(endpointWithID, resp.status)

\* the outcome of GetEndpoint when the response is the answer to its only
\* request
GetOutcome(resp) ==
  LET page == getEndpointPage(EndpointURL(endpoint), resp)
  IN IF page.err # "" THEN ClientRet("error", page.err, <<>>)
     ELSE ClientRet("ok", "", page.data)

\* the responses but the last are all rate limits
OnlyRateLimitsBeforeLast ==
  /\ served # <<>>
  /\ \A i \in 1..(Len(served) - 1) : served[i].status = 429

\* C18: a request answered by k rate limits and then by something else is
\* issued k + 1 times, each time to the same URL, and the call returns what
\* the last response alone tells, whatever k; a rate limit never ends a call:
\* every 429 is followed by the same request again unless the context is
\* cancelled, and a call that returned otherwise than on cancellation did not
\* return on a 429.
C18_RetryUnbounded ==
  /\ clpc \in {"top", "returned"} => Len(reqLog) = Len(served)
  /\ \A i \in 1..Len(served) :
       (served[i].status = 429 /\ i < Len(reqLog)) => reqLog[i + 1] = reqLog[i]
  /\ (served # <<>> /\ Last(served).status = 429) =>
       \/ clpc \in {"top", "inflight"}
       \/ Returned /\ cret.kind = "canceled" /\ ctxDone
  /\ (Returned /\ cret.kind # "canceled" /\ OnlyRateLimitsBeforeLast) =>
       /\ Last(served).status # 429
       /\ Len(reqLog) = Len(RateLimits) + 1
       /\ \A i \in 1..Len(reqLog) : reqLog[i] = reqLog[1]
       /\ op = "delete" => cret = DeleteOutcome(Last(served))
       /\ op = "get" => cret = GetOutcome(Last(served))
  /\ (Returned /\ op = "delete" /\ cret.kind # "canceled") => OnlyRateLimitsBeforeLast

\* two rate limits, then the page: three requests to the endpoint, and the
\* items of the page returned
C18_Witness ==
  /\ op = "get" /\ Returned
  /\ Len(served) = 3
  /\ served[1].status = 429 /\ served[2].status = 429 /\ IsPageA(served[3])
  /\ reqLog = <<EndpointURL(endpoint), EndpointURL(endpoint), EndpointURL(endpoint)>>
  /\ cret.kind = "ok"
  /\ cret.data = ExpectedItems(served[3].data)
  /\ Len(cret.data) = MaxPageItems

\* the wait the header asks for: a number of seconds or minutes with its unit,
\* else ten seconds
ExpectedWait(header) ==
  CASE header = <<"3", "s">> -> 3
    [] header = <<"1", "m">> -> 60
    [] OTHER -> 10

\* C19: the call sleeps once per rate limit, for the duration its Retry-After
\* header gives when the header is there and parses as a duration and for ten
\* seconds otherwise, in GetEndpoint as in DeleteEndpoint.
C19_WaitFollowsRetryAfter ==
  /\ Len(waits) = Len(RateLimits)
  /\ \A j \in 1..Len(waits) : waits[j] = ExpectedWait(RateLimits[j].retryAfter)

\* a delete slept a minute as its first 429 asked, then the default on a
\* header that is a bare number of seconds
C19_Witness ==
  /\ op = "delete"
  /\ Len(RateLimits) = 2
  /\ RateLimits[1].retryAfter = <<"1", "m">>
  /\ RateLimits[2].retryAfter = <<"120">>
  /\ waits = <<60, 10>>

\* C21: DeleteEndpoint returns success only on a 204; a response with any
\* other status but 429 ends the call at once, with no further request, in
\* an error that carries the path of the item and the status.
C21_DeleteSucceedsOnlyOn204 ==
  op = "delete" =>
    /\ (Returned /\ cret.kind = "ok") => (served # <<>> /\ Last(served).status = 204)
    /\ (served # <<>> /\ Last(served).status \notin {0, 204, 429}) =>
         /\ Returned
         /\ cret.kind = "error"
         /\ cret.path = endpointWithID
         /\ cret.status = Last(served).status
         /\ Len(reqLog) = Len(served)

\* a delete answered 200 returned the error with the path and the status 200
C21_Witness ==
  /\ op = "delete" /\ Returned
  /\ Len(served) = 1
  /\ served[1].status = 200
  /\ cret = DeleteStatusError(endpointWithID, 200)
  /\ Len(reqLog) = 1

\* C22: a page request that fails in transport, or is answered with a status
\* other than 200, 429 and 404, ends GetEndpoint at once: it returns an error
\* and no items, whatever it had accumulated, and no further request is issued.
C22_UnhandledStatusIsFatal ==
  (op = "get" /\ served # <<>> /\ Last(served).status \notin {200, 404, 429}) =>
    /\ Returned
    /\ cret.kind = "error"
    /\ cret.data = <<>>
    /\ Len(reqLog) = Len(served)

\* the second page was answered 500 with the items of the first accumulated:
\* an error and no items
C22_Witness ==
  /\ op = "get" /\ Returned
  /\ Len(served) = 2
  /\ IsPageA(served[1])
  /\ served[2].status = 500
  /\ Len(getResult) = MaxPageItems
  /\ cret.kind = "error"
  /\ cret.data = <<>>

\* the field holds a string usable as an identifier
Present(v) == AsString(v).ok

\* the id of the item when present, otherwise its name
Address(item) == IF Present(item.id) THEN item.id.val ELSE item.name.val

\* C23: for every resource type Delete addresses the item by its id when
\* present, otherwise by its name: it does not fail as unaddressable and the
\* item's delete request goes to r.path/id or r.path/name; with neither
\* field Delete has returned an error and no request was issued.
C23_DeleteAddressesByIdThenName ==
  (op = "delete" /\ rpc # "delete") =>
    IF Present(ritem.id) \/ Present(ritem.name)
    THEN /\ rret # InvalidItemError(rkind)
         /\ rpc = "item" => pageURL = EndpointURL(ItemPath(Address(ritem)))
    ELSE /\ rpc = "returned"
         /\ rret = InvalidItemError(rkind)
         /\ reqLog = <<>>

\* the request ended in a transport error or in a status other than 200,
\* 429 and 404
Fatal(resp) == resp.status \notin {200, 404, 429}

\* C24: when List has returned and one of the requests it issued, nested
\* per-item requests included, ended in a transport error or in a status
\* other than 200, 429 and 404, List returned an error.
C24_ListFailureNotDropped ==
  (op = "get" /\ rpc = "returned" /\ \E i \in 1..Len(served) : Fatal(served[i]))
    => rret.kind = "error"

\* r declares no dependencies
NoDependencies(r) == ~\E d \in Names \cup {Ghost} : DependsOn(r, d)

\* no resource declares r as a dependency
NoDependents(r) == ~\E q \in Names : DependsOn(q, r)

\* C25 as stated: in a levelling that succeeded every resource that declares
\* no dependencies is in the first deletion level.
C25_NoDependenciesInFirstLevel ==
  (Leveled /\ lres.err = "") =>
    \A r \in Names : NoDependencies(r) => LevelOf(r) = 1

\* C25 amended: in a levelling that succeeded a resource that declares no
\* dependencies is in the first deletion level exactly when no resource
\* declares it as a dependency; otherwise it is in a later level than each
\* of its dependents.
C25_NoDependenciesFirstIffNoDependents ==
  (Leveled /\ lres.err = "") =>
    \A r \in Names :
      NoDependencies(r) =>
        /\ LevelOf(r) = 1 <=> NoDependents(r)
        /\ \A q \in Names : DependsOn(q, r) => LevelOf(q) < LevelOf(r)

\* a levelling with a resource without dependencies in the first level and
\* another, which has a dependent, in a later level
C25_Witness ==
  /\ Leveled /\ lres.err = ""
  /\ \E r, d \in Names :
       /\ NoDependencies(r) /\ NoDependents(r) /\ LevelOf(r) = 1
       /\ NoDependencies(d) /\ ~NoDependents(d) /\ LevelOf(d) > 1

\* the worker of r has sent its error
Reported(r) == werr[r] # NoErr

\* C26 (delete mode): while a level is processed or after deleteData has
\* returned from it, the capacity of the error channel is the number of
\* workers launched for the level, a worker that reported is finished (so it
\* sends at most one error), the buffered errors are at most the workers that
\* reported, and every worker still running finds room in the channel, the
\* coordinator having returned or not.
C26_Inv ==
  (cpc \in {"select", "returned"} /\ levelIdx \in 1..Len(levels)) =>
    /\ ErrChanCap(levelIdx) = Cardinality(CurLevel)
    /\ \A r \in CurLevel : Reported(r) => Finished(r)
    /\ Len(errChan) <= Cardinality({r \in CurLevel : Reported(r)})
    /\ Len(errChan) <= ErrChanCap(levelIdx)
    /\ \A r \in CurLevel : ~Finished(r) => Len(errChan) < ErrChanCap(levelIdx)

\* a reported error is the worker's last step: it never sends again
C26_Step ==
  \A r \in Names :
    Reported(r) => (werr'[r] = werr[r] /\ wpc'[r] = wpc[r])

C27_Step ==
  ctxDone =>
    /\ reqLog' = reqLog
    /\ (clpc = "top" /\ clpc' # "top") =>
         /\ clpc' = "returned"
         /\ cret' = ClientRet("canceled", "context canceled", <<>>)

C27_CancelBoundsRetries == [][C27_Step]_vars

\* a walk whose second request was rate limited and that was cancelled
\* during the wait: it returned the cancellation error without a third
\* request
C27_Witness ==
  /\ op = "get" /\ Returned
  /\ ctxDone
  /\ cret.kind = "canceled"
  /\ Len(served) = 2
  /\ IsPageA(served[1])
  /\ served[2].status = 429
  /\ Len(waits) = 1
  /\ Len(reqLog) = 2

\* C28: cancellation flows from the operation-wide context to the scopes of
\* the levels and never back: once the context is cancelled every scope
\* created is cancelled; a scope is cancelled with the context still live
\* only when deleteData has returned, so that the scopes of the levels
\* before the one in progress stay live while deleteData runs; and the
\* return of deleteData, which cancels the scopes, leaves the context as it
\* was.
C28_Inv ==
  /\ ctxDone => \A l \in ScopesCreated : LevelScopeDone(l)
  /\ \A l \in ScopesCreated : (LevelScopeDone(l) /\ ~ctxDone) => cpc = "returned"

C28_Step ==
  /\ (cpc # "returned" /\ cpc' = "returned") => ctxDone' = ctxDone
  /\ (~ctxDone /\ ctxDone') => (cpc' = cpc /\ cpc # "returned")

C29_NilMeansEverythingDeleted ==
  (cpc = "returned" /\ ret = NilRet) =>
    \A r \in Names :
      /\ Finished(r) /\ ~Reported(r)
      /\ items[r] = backend[r]
      /\ deleted[r] = items[r]

\* the resources that declare d as a dependency
Dependents(d) == {r \in Names : DependsOn(r, d)}

\* the greatest element of a non-empty set of numbers
MaxOf(S) == CHOOSE m \in S : \A n \in S : n <= m

\* C30: in a levelling that succeeded the first level holds exactly the
\* resources that no resource declares as a dependency, and every other
\* resource is one level after the latest of its dependents.
C30_LevelIsLongestChainOfDependents ==
  (Leveled /\ lres.err = "") =>
    /\ Len(levels) >= 1 => SeqToSet(levels[1]) = {r \in Names : Dependents(r) = {}}
    /\ \A d \in Names :
         Dependents(d) # {} =>
           LevelOf(d) = 1 + MaxOf({LevelOf(r) : r \in Dependents(d)})

\* a resource with a dependent in the first level and one in the second is
\* in the third level
C30_Witness ==
  /\ Leveled /\ lres.err = ""
  /\ \E d, r, q \in Names :
       /\ DependsOn(r, d) /\ DependsOn(q, d)
       /\ LevelOf(r) = 1 /\ LevelOf(q) = 2 /\ LevelOf(d) = 3

\* C31: while a resource of the level has reported a failed item delete and
\* neither the operation context is cancelled nor deleteData has returned, a
\* sibling at its per-item check goes on to the delete of its item, and no
\* sibling finishes without an error while items of its listing are left.
C31_Step ==
  \A r, q \in Names :
    (r # q /\ DeleteFailed(r) /\ LevelOf(q) = LevelOf(r)
       /\ ~ctxDone /\ cpc # "returned") =>
      /\ (wpc[q] = "check" /\ wpc'[q] # "check") => wpc'[q] = "delete"
      /\ (~Finished(q) /\ wpc'[q] = "done" /\ werr'[q] = NoErr)
           => deleted'[q] = items'[q]

C31_SiblingNotStoppedByFailure == [][C31_Step]_vars

\* the first delete of one resource failed; its sibling, not cancelled, has a
\* delete request for its second item in flight
C31_Witness ==
  /\ ~ctxDone /\ cpc = "select"
  /\ \E r, q \in Names :
       /\ r # q /\ LevelOf(q) = LevelOf(r)
       /\ DeleteFailed(r) /\ werr[r].item = 1
       /\ wpc[q] = "deleting" /\ idx[q] = 2 /\ deleted[q] = 1

\* the workers that went through results = append(results, data)
Appended == {r \in Names : Finished(r) /\ ~Reported(r)}

\* C32: a worker is at the append of the shared results only while it holds
\* the mutex, and the mutex is held only there; results changes only by the
\* holder appending one entry; and when listData returns the results, every
\* worker has finished and the entries are as many as the appends performed.
C32_Inv ==
  /\ \A r \in Names : wpc[r] = "append" <=> mutex = r
  /\ Len(results) = Cardinality(Appended)
  /\ (cpc = "returned" /\ ret = NilRet) =>
       /\ \A r \in Names : Finished(r)
       /\ Len(results) = Cardinality(Appended)
       /\ Appended = Names

C32_Step ==
  results' # results =>
    \E r \in Names :
      /\ mutex = r /\ wpc[r] = "append"
      /\ results' = Append(results, ResourceData(r, items[r]))
      /\ mutex' = ""

C32_NoAppendLost == [][C32_Inv /\ C32_Inv' /\ C32_Step]_vars

\* listData returned the results of two workers that both appended
C32_Witness ==
  /\ cpc = "returned" /\ ret = NilRet
  /\ Len(results) = 2
  /\ Cardinality(Appended) = 2
  /\ \E r \in Names : items[r] > 0

\* C33: the error channel of listData is closed only from the done case,
\* when every worker has finished; it is not closed when listData returns on
\* cancellation; and no error is sent on it once it is closed.
C33_Inv ==
  /\ errClosed => (doneClosed /\ \A r \in Names : Finished(r))
  /\ (cpc = "returned" /\ ret = Canceled) => ~errClosed

C33_Step ==
  /\ (\E r \in Names : werr'[r] # werr[r]) => (~errClosed /\ ~errClosed')
  /\ (errClosed' /\ ~errClosed) => (cpc = "select" /\ doneClosed)

C33_NoSendOnClosedChannel == [][C33_Inv /\ C33_Inv' /\ C33_Step]_vars

\* listData has returned on cancellation with the channel open: the error of
\* one worker is buffered and another worker is still listing
C33_Witness ==
  /\ cpc = "returned" /\ ret = Canceled
  /\ ~errClosed
  /\ ~doneClosed
  /\ Len(errChan) = 1
  /\ \E r, q \in Names : Reported(r) /\ wpc[q] = "listing"

\* deleteData has returned and every worker it started has finished
Terminated == cpc = "returned" /\ \A r \in Names : Started(r) => Finished(r)

LevelSets(res) ==
  [i \in 1..Len(res.levels) |-> {res.levels[i][k] : k \in 1..Len(res.levels[i])}]

\* C35: whatever the order in which the map of the graph is iterated, the
\* levelling gives the same error, the same number of levels and the same set
\* of resources in each level.
C35_LevelingDeterministicUpToOrder ==
  cpc = "leveled" =>
    \A order \in Perms(Names) :
      LET other == GetResourcesForDeletion(registry, order)
      IN /\ other.err = lres.err
         /\ Len(other.levels) = Len(lres.levels)
         /\ LevelSets(other) = LevelSets(lres)

\* a levelling with two resources in one level, which another iteration order
\* lists the other way round
C35_Witness ==
  /\ cpc = "leveled" /\ lres.err = "" /\ Len(lres.levels) = 2
  /\ \E order \in Perms(Names) :
       LET other == GetResourcesForDeletion(registry, order)
       IN other.levels # lres.levels /\ LevelSets(other) = LevelSets(lres)

\* the URL of the delete request for the j-th secret of the item
SecretURL(j) == EndpointURL(SecretPath(ItemID(rkind, ritem).val, ritem.secret[j]))

\* the URL of the delete request for the config store itself
StoreURL == EndpointURL(ItemPath(ItemID(rkind, ritem).val))

\* the place of a delete request in the sequence secret 1, secret 2, ..., store
Rank(url) ==
  IF url = StoreURL THEN Len(ritem.secret) + 1
  ELSE IF \E j \in 1..Len(ritem.secret) : url = SecretURL(j)
  THEN CHOOSE j \in 1..Len(ritem.secret) : url = SecretURL(j)
  ELSE 0

\* Delete of a config-store item that has an id
DeletingConfigStore ==
  rkind = "config-store" /\ op = "delete" /\ ItemID(rkind, ritem).ok

C36_Inv ==
  DeletingConfigStore =>
    \* only the secrets of the item and the store are deleted, in that order
    /\ \A i \in 1..Len(reqLog) : Rank(reqLog[i]) > 0
    /\ \A i, k \in 1..Len(reqLog) : i < k => Rank(reqLog[i]) <= Rank(reqLog[k])
    \* the store is deleted after every secret was deleted with success
    /\ (\E i \in 1..Len(reqLog) : reqLog[i] = StoreURL) =>
         \A j \in 1..Len(ritem.secret) :
           \E i \in 1..Len(served) : reqLog[i] = SecretURL(j) /\ served[i].status = 204
    \* a failed secret delete: no later secret and not the store
    /\ (rpc = "returned" /\ rret.err = "failed to delete secret") =>
         /\ ridx \in 1..Len(ritem.secret)
         /\ \A i \in 1..Len(reqLog) : Rank(reqLog[i]) <= ridx
         /\ served[Len(served)].status # 204

C36_Step ==
  DeletingConfigStore =>
    \* the error of a secret delete is returned at once
    /\ (rpc = "secret" /\ clpc = "returned" /\ cret.kind # "ok") =>
         (rpc' = "returned" /\ rret'.kind = "error" /\ rret'.err = "failed to delete secret"
          /\ reqLog' = reqLog)
    \* nothing is requested after Delete returned
    /\ rpc = "returned" => reqLog' = reqLog

\* C36: Delete of a config store deletes the secrets recorded on the item one
\* after the other and then the store; a failed secret delete is returned and
\* ends the requests.
C36_SecretsBeforeConfigStore == [][C36_Inv /\ C36_Inv' /\ C36_Step]_vars

\* two secrets deleted, then the store, and Delete returned nil
C36_Witness ==
  /\ DeletingConfigStore /\ rpc = "returned" /\ rret.kind = "ok"
  /\ Len(ritem.secret) = 2
  /\ reqLog = <<SecretURL(1), SecretURL(2), StoreURL>>

\* a list of dependencies with every name kept once
RECURSIVE Once(_)
Once(deps) ==
  IF deps = <<>> THEN <<>>
  ELSE <<Head(deps)>> \o Once(SelectSeq(Tail(deps), LAMBDA d : d # Head(deps)))

\* the registry with every dependency declared once
DeclaredOnce(resources) ==
  [i \in 1..Len(resources) |-> Resource(resources[i].name, Once(resources[i].dependencies))]

\* the levels that hold the resource n
LevelsHolding(res, n) == {i \in 1..Len(res.levels) : n \in LevelSets(res)[i]}

\* C37: a registry in which a resource names a dependency more than once is
\* levelled as the registry that names it once: same error, same levels; when
\* there is no error every resource is in exactly one level and every
\* dependency in a later level than the resource that declares it.
C37_RepeatedDependencyAsOnce ==
  cpc = "leveled" =>
    /\ \A order \in Perms(Names) :
         LET once == GetResourcesForDeletion(DeclaredOnce(registry), order)
         IN once.err = lres.err /\ LevelSets(once) = LevelSets(lres)
    /\ lres.err = "" =>
         /\ \A n \in Names : Cardinality(LevelsHolding(lres, n)) = 1
         /\ \A i \in 1..Len(registry) : \A k \in 1..Len(registry[i].dependencies) :
              \A a \in LevelsHolding(lres, registry[i].name) :
                \A b \in LevelsHolding(lres, registry[i].dependencies[k]) : a < b

\* a resource that names the same dependency twice, levelled without error
C37_Witness ==
  /\ cpc = "leveled" /\ lres.err = ""
  /\ \E i \in 1..Len(registry) :
       LET deps == registry[i].dependencies
       IN \E j, k \in 1..Len(deps) : j < k /\ deps[j] = deps[k]

\* a 200 page with a non-empty data array and a non-empty items array
BothArrays(resp) ==
  resp.status = 200 /\ resp.decodes /\ Len(resp.data) > 0 /\ Len(resp.items) > 0

\* a 200 page with a non-empty next link and page.has_next_page set
BothLinks(resp) ==
  resp.status = 200 /\ resp.decodes /\ Len(resp.next) > 0 /\ resp.has_next_page

\* the request that follows a page with both links goes to the next link
\* under the base URL, which is not the cursor URL
C38_Inv ==
  op = "get" =>
    \A i \in 1..(Len(reqLog) - 1) :
      (BothLinks(served[i]) /\ Len(served[i].data) + Len(served[i].items) > 0) =>
        /\ reqLog[i + 1] = baseURL \o <<"/">> \o TrimPrefix(served[i].next, "/")
        /\ reqLog[i + 1] # reqLog[i] \o <<"?page.next_cursor=">> \o served[i].next_cursor

\* a page with both arrays adds its data array, and nothing of items
C38_Step ==
  (op = "get" /\ clpc = "inflight" /\ Len(served') = Len(served) + 1
     /\ BothArrays(served'[Len(served')])) =>
    /\ getResult' = getResult \o StripAll(served'[Len(served')].data)
    /\ \A k \in (Len(getResult) + 1)..Len(getResult') : getResult'[k].arr = "data"

\* C38: of a 200 page with both arrays only data is used; after a 200 page
\* with both next and has_next_page the next request goes to next resolved
\* against the base URL.
C38_DataAndNextTakePrecedence == [][C38_Inv /\ C38_Inv' /\ C38_Step]_vars

\* a first page with both arrays and both links: its data item taken, the
\* second request sent to the next link
C38_Witness ==
  /\ op = "get" /\ Len(reqLog) = 2
  /\ BothArrays(served[1]) /\ BothLinks(served[1])
  /\ Len(getResult) = 1 /\ getResult[1].arr = "data"
  /\ reqLog[2] = baseURL \o <<"/">> \o TrimPrefix(served[1].next, "/")

====
